---- MODULE Spec2Model ----
(***************************************************************************)
(* Network data (kiara_plugin.network_analysis): a graph stored as a nodes *)
(* table and an edges table, the augmentation of both tables with computed *)
(* columns, component labelling, filtering, metadata extraction and the    *)
(* conversions to and from networkx / rustworkx graphs.                    *)
(*                                                                         *)
(* A table is a record [cols, rows]: cols is the sequence of column names, *)
(* rows the sequence of rows, each row a function from column name to      *)
(* value.  A null cell is NULL.  str(x) is the integer StrBase + x, a      *)
(* float quotient a / b is the pair <<a, b>>.                              *)
(***************************************************************************)
EXTENDS Integers, Sequences, FiniteSets, TLC

\* ------------------------------------------------------------------ bounds
MaxNodes == 3
MaxEdges == 3
MaxSize == 5
MaxRawId == 2
MaxRawRows == 2
MaxGraphEdges == 2

\* -------------------------------------------------------------- column names
NODE_ID_COLUMN_NAME == "_node_id"
LABEL_COLUMN_NAME == "_label"
SOURCE_COLUMN_NAME == "_source"
TARGET_COLUMN_NAME == "_target"
EDGE_ID_COLUMN_NAME == "_edge_id"
COUNT_DIRECTED_COLUMN_NAME == "_count_dup_directed"
COUNT_IDX_DIRECTED_COLUMN_NAME == "_idx_dup_directed"
COUNT_UNDIRECTED_COLUMN_NAME == "_count_dup_undirected"
COUNT_IDX_UNDIRECTED_COLUMN_NAME == "_idx_dup_undirected"
CONNECTIONS_COLUMN_NAME == "_count_edges"
CONNECTIONS_MULTI_COLUMN_NAME == "_count_edges_multi"
IN_DIRECTED_COLUMN_NAME == "_in_edges"
IN_DIRECTED_MULTI_COLUMN_NAME == "_in_edges_multi"
OUT_DIRECTED_COLUMN_NAME == "_out_edges"
OUT_DIRECTED_MULTI_COLUMN_NAME == "_out_edges_multi"
UNWEIGHTED_DEGREE_CENTRALITY_COLUMN_NAME == "_degree_centrality"
UNWEIGHTED_DEGREE_CENTRALITY_MULTI_COLUMN_NAME == "_degree_centrality_multi"
UNWEIGHTED_BIPARTITE_DEGREE_CENTRALITY_COLUMN_NAME == "_bipartite_degree_centrality"
UNWEIGHTED_BIPARTITE_DEGREE_CENTRALITY_MULTI_COLUMN_NAME == "_bipartite_degree_centrality_multi"
NODE_IS_SOURCE_COLUMN_NAME == "_is_source"
NODE_IS_TARGET_COLUMN_NAME == "_is_target"
COMPONENT_ID_COLUMN_NAME == "_component_id"

\* the names that start with '_' (x.startswith("_"))
ReservedNames ==
    { NODE_ID_COLUMN_NAME, LABEL_COLUMN_NAME, SOURCE_COLUMN_NAME, TARGET_COLUMN_NAME,
      EDGE_ID_COLUMN_NAME, COUNT_DIRECTED_COLUMN_NAME, COUNT_IDX_DIRECTED_COLUMN_NAME,
      COUNT_UNDIRECTED_COLUMN_NAME, COUNT_IDX_UNDIRECTED_COLUMN_NAME,
      CONNECTIONS_COLUMN_NAME, CONNECTIONS_MULTI_COLUMN_NAME, IN_DIRECTED_COLUMN_NAME,
      IN_DIRECTED_MULTI_COLUMN_NAME, OUT_DIRECTED_COLUMN_NAME,
      OUT_DIRECTED_MULTI_COLUMN_NAME, UNWEIGHTED_DEGREE_CENTRALITY_COLUMN_NAME,
      UNWEIGHTED_DEGREE_CENTRALITY_MULTI_COLUMN_NAME,
      UNWEIGHTED_BIPARTITE_DEGREE_CENTRALITY_COLUMN_NAME,
      UNWEIGHTED_BIPARTITE_DEGREE_CENTRALITY_MULTI_COLUMN_NAME,
      NODE_IS_SOURCE_COLUMN_NAME, NODE_IS_TARGET_COLUMN_NAME, COMPONENT_ID_COLUMN_NAME }

StartsWithUnderscore(name) == name \in ReservedNames \cup {"_flag"}

\* ------------------------------------------------------------------ values
NULL == 0 - 1

\* str(x): the strings are the integers from StrBase on, apart from every number
StrBase == 1000
Str(x) == StrBase + x

\* a / b in duckdb: NULL (here <<0, 0>>) when the divisor is 0
Div(a, b) == IF b = 0 THEN <<0, 0>> ELSE <<a, b>>

\* SQL '=' in a join or a WHERE: never true on NULL
SqlEq(a, b) == a # NULL /\ b # NULL /\ a = b

\* LEAST / GREATEST of duckdb ignore a NULL argument
Least(a, b) == IF a = NULL THEN b ELSE IF b = NULL THEN a ELSE IF a <= b THEN a ELSE b
Greatest(a, b) == IF a = NULL THEN b ELSE IF b = NULL THEN a ELSE IF a >= b THEN a ELSE b

\* ------------------------------------------------------------ sequence helpers
Range(s) == { s[i] : i \in DOMAIN s }

RECURSIVE SortedSeq(_)
\* the integers of the set S in ascending order
SortedSeq(S) ==
    IF S = {} THEN <<>>
    ELSE LET m == CHOOSE i \in S : \A j \in S : i <= j
         IN  <<m>> \o SortedSeq(S \ {m})

SubSeqByIdx(s, idxs) == LET o == SortedSeq(idxs) IN [k \in 1..Len(o) |-> s[o[k]]]

\* the elements of cols that are in keep, in the order of cols
FilterCols(cols, keep) ==
    SubSeqByIdx(cols, { i \in DOMAIN cols : cols[i] \in keep })

Restrict(f, S) == [x \in S |-> f[x]]

Perms(n) == { p \in [1..n -> 1..n] : \A i, j \in 1..n : p[i] = p[j] => i = j }

InsertAt(s, idx, x) == SubSeq(s, 1, idx) \o <<x>> \o SubSeq(s, idx + 1, Len(s))

Table(cols, rows) == [cols |-> cols, rows |-> rows]

Column(table, name) == [i \in DOMAIN table.rows |-> table.rows[i][name]]

Ok(v) == [ok |-> TRUE, value |-> v]
Err(e) == [ok |-> FALSE, error |-> e]

\* ------------------------------------------------------- edge augmentation
\* the columns that do not start with '_', in table order
OtherColumns(table) ==
    FilterCols(table.cols, { c \in Range(table.cols) : ~StartsWithUnderscore(c) })

\* a window partitioned by the source alone
DirectedKeyBySource(row) == <<row[SOURCE_COLUMN_NAME]>>

\* PARTITION BY _source, _target
DirectedKey(row) == <<row[SOURCE_COLUMN_NAME], row[TARGET_COLUMN_NAME]>>

\* a window that keeps the direction of the pair
UndirectedKeyOrdered(row) == <<row[SOURCE_COLUMN_NAME], row[TARGET_COLUMN_NAME]>>

\* PARTITION BY LEAST(_source, _target), GREATEST(_source, _target)
UndirectedKey(row) ==
    <<Least(row[SOURCE_COLUMN_NAME], row[TARGET_COLUMN_NAME]),
      Greatest(row[SOURCE_COLUMN_NAME], row[TARGET_COLUMN_NAME])>>

\* COUNT(*) OVER (PARTITION BY key): keys[j] is the partition key of row j
WindowCount(keys, k) == Cardinality({ j \in DOMAIN keys : keys[j] = keys[k] })

\* ROW_NUMBER() OVER (PARTITION BY key): the rank of row k among the rows of its
\* partition, in the order in which the window operator sees the rows
WindowRowNumber(keys, k) == Cardinality({ j \in 1..k : keys[j] = keys[k] })

EdgeComputedColumns ==
    << EDGE_ID_COLUMN_NAME, SOURCE_COLUMN_NAME, TARGET_COLUMN_NAME,
       COUNT_DIRECTED_COLUMN_NAME, COUNT_IDX_DIRECTED_COLUMN_NAME,
       COUNT_UNDIRECTED_COLUMN_NAME, COUNT_IDX_UNDIRECTED_COLUMN_NAME >>

\* The query has no ORDER BY: worder is the order in which duckdb's window
\* operator sees (and returns) the rows of edges_table, a permutation of them.
augment_edges_table_with_id_and_weights(edges_table, worder) ==
    LET n == Len(edges_table.rows)
        seen == [k \in 1..n |-> edges_table.rows[worder[k]]]
        other == OtherColumns(edges_table)
        directed == [k \in 1..n |-> DirectedKey(seen[k])]
        undirected == [k \in 1..n |-> UndirectedKey(seen[k])]
        row(k) ==
            (EDGE_ID_COLUMN_NAME :> k - 1)
            @@ (SOURCE_COLUMN_NAME :> seen[k][SOURCE_COLUMN_NAME])
            @@ (TARGET_COLUMN_NAME :> seen[k][TARGET_COLUMN_NAME])
            @@ (COUNT_DIRECTED_COLUMN_NAME :> WindowCount(directed, k))
            @@ (COUNT_IDX_DIRECTED_COLUMN_NAME :> WindowRowNumber(directed, k))
            @@ (COUNT_UNDIRECTED_COLUMN_NAME :> WindowCount(undirected, k))
            @@ (COUNT_IDX_UNDIRECTED_COLUMN_NAME :> WindowRowNumber(undirected, k))
            @@ Restrict(seen[k], Range(other))
    IN  Table(EdgeComputedColumns \o other, [k \in 1..n |-> row(k)])

\* the count of the edge rows of a node that leaves out its self-loops
EdgeCountWithoutSelfLoops(edges_table, endpoint, node_id, simple) ==
    Cardinality({ i \in DOMAIN edges_table.rows :
        /\ SqlEq(node_id, edges_table.rows[i][endpoint])
        /\ edges_table.rows[i][SOURCE_COLUMN_NAME] # edges_table.rows[i][TARGET_COLUMN_NAME]
        /\ (simple => edges_table.rows[i][COUNT_IDX_DIRECTED_COLUMN_NAME] = 1) })

\* the count of the edge rows of a node that ignores the duplicate index
EdgeCountOfAllRows(edges_table, endpoint, node_id, simple) ==
    Cardinality({ i \in DOMAIN edges_table.rows :
        SqlEq(node_id, edges_table.rows[i][endpoint]) })

\* ------------------------------------------------------- node augmentation
\* COUNT(*) of the edge rows joined to a node: endpoint column = node id, and,
\* for the simple interpretation, _idx_dup_directed = 1
EdgeCount(edges_table, endpoint, node_id, simple) ==
    Cardinality({ i \in DOMAIN edges_table.rows :
        /\ SqlEq(node_id, edges_table.rows[i][endpoint])
        /\ (simple => edges_table.rows[i][COUNT_IDX_DIRECTED_COLUMN_NAME] = 1) })

\* SELECT DISTINCT endpoint FROM edges_table, joined to the node
IsEndpoint(edges_table, endpoint, node_id) ==
    \E i \in DOMAIN edges_table.rows : SqlEq(node_id, edges_table.rows[i][endpoint])

RECURSIVE OrderByNodeId(_)
\* ORDER BY _node_id (ascending, nulls last)
OrderByNodeId(rows) ==
    IF rows = <<>> THEN <<>>
    ELSE LET key(i) == IF rows[i][NODE_ID_COLUMN_NAME] = NULL
                       THEN MaxNodes + MaxRawId + 2
                       ELSE rows[i][NODE_ID_COLUMN_NAME]
             m == CHOOSE i \in DOMAIN rows :
                     \A j \in DOMAIN rows : key(i) < key(j) \/ (key(i) = key(j) /\ i <= j)
         IN  <<rows[m]>> \o OrderByNodeId(SubSeqByIdx(rows, DOMAIN rows \ {m}))

NodeComputedColumns ==
    << NODE_ID_COLUMN_NAME, LABEL_COLUMN_NAME, CONNECTIONS_COLUMN_NAME,
       UNWEIGHTED_DEGREE_CENTRALITY_COLUMN_NAME,
       UNWEIGHTED_BIPARTITE_DEGREE_CENTRALITY_COLUMN_NAME,
       CONNECTIONS_MULTI_COLUMN_NAME,
       UNWEIGHTED_DEGREE_CENTRALITY_MULTI_COLUMN_NAME,
       UNWEIGHTED_BIPARTITE_DEGREE_CENTRALITY_MULTI_COLUMN_NAME,
       IN_DIRECTED_COLUMN_NAME, IN_DIRECTED_MULTI_COLUMN_NAME,
       OUT_DIRECTED_COLUMN_NAME, OUT_DIRECTED_MULTI_COLUMN_NAME,
       NODE_IS_SOURCE_COLUMN_NAME, NODE_IS_TARGET_COLUMN_NAME >>

augment_nodes_table_with_connection_counts(nodes_table, edges_table) ==
    LET other == OtherColumns(nodes_table)
        sorted == OrderByNodeId(nodes_table.rows)
        nodes_table_rows == Len(nodes_table.rows)
        ids(endpoint) == { sorted[i][NODE_ID_COLUMN_NAME] : i \in
                            { j \in DOMAIN sorted :
                                IsEndpoint(edges_table, endpoint, sorted[j][NODE_ID_COLUMN_NAME]) } }
        nodes_table_rows_sources == Cardinality(ids(SOURCE_COLUMN_NAME))
        nodes_table_rows_targets == Cardinality(ids(TARGET_COLUMN_NAME))
        row(r) ==
            LET id == r[NODE_ID_COLUMN_NAME]
                in1 == EdgeCount(edges_table, TARGET_COLUMN_NAME, id, TRUE)
                in2 == EdgeCount(edges_table, TARGET_COLUMN_NAME, id, FALSE)
                out1 == EdgeCount(edges_table, SOURCE_COLUMN_NAME, id, TRUE)
                out2 == EdgeCount(edges_table, SOURCE_COLUMN_NAME, id, FALSE)
                is_source == IsEndpoint(edges_table, SOURCE_COLUMN_NAME, id)
                is_target == IsEndpoint(edges_table, TARGET_COLUMN_NAME, id)
            IN  (NODE_ID_COLUMN_NAME :> id)
                @@ (LABEL_COLUMN_NAME :> r[LABEL_COLUMN_NAME])
                @@ (CONNECTIONS_COLUMN_NAME :> in1 + out1)
                @@ (UNWEIGHTED_DEGREE_CENTRALITY_COLUMN_NAME :> Div(in1 + out1, nodes_table_rows))
                @@ (UNWEIGHTED_BIPARTITE_DEGREE_CENTRALITY_COLUMN_NAME :>
                        IF is_source THEN Div(out1, nodes_table_rows_sources)
                        ELSE Div(in1, nodes_table_rows_targets))
                @@ (CONNECTIONS_MULTI_COLUMN_NAME :> in2 + out2)
                @@ (UNWEIGHTED_DEGREE_CENTRALITY_MULTI_COLUMN_NAME :> Div(in2 + out2, nodes_table_rows))
                @@ (UNWEIGHTED_BIPARTITE_DEGREE_CENTRALITY_MULTI_COLUMN_NAME :>
                        IF is_source THEN Div(out2, nodes_table_rows_sources)
                        ELSE Div(in2, nodes_table_rows_targets))
                @@ (IN_DIRECTED_COLUMN_NAME :> in1)
                @@ (IN_DIRECTED_MULTI_COLUMN_NAME :> in2)
                @@ (OUT_DIRECTED_COLUMN_NAME :> out1)
                @@ (OUT_DIRECTED_MULTI_COLUMN_NAME :> out2)
                @@ (NODE_IS_SOURCE_COLUMN_NAME :> is_source)
                @@ (NODE_IS_TARGET_COLUMN_NAME :> is_target)
                @@ Restrict(r, Range(other))
    IN  Table(NodeComputedColumns \o other, [i \in DOMAIN sorted |-> row(sorted[i])])

\* ------------------------------------------------------------ rustworkx graphs
\* A rustworkx graph: nodes is the sequence of node payloads (the node with
\* index i is nodes[i + 1]), edges the sequence of [a, b, data] records.
rx_new(directed, multigraph) ==
    [directed |-> directed, multigraph |-> multigraph, nodes |-> <<>>, edges |-> <<>>,
     attrs |-> <<>>]

rx_add_node(graph, data) == [graph EXCEPT !.nodes = Append(@, data)]

rx_has_node(graph, i) == i # NULL /\ i >= 0 /\ i < Len(graph.nodes)

rx_same_edge(graph, e, a, b) ==
    \/ (e.a = a /\ e.b = b)
    \/ (~graph.directed /\ e.a = b /\ e.b = a)

\* add_edge of a multigraph, whatever the graph
rx_add_edge_parallel(graph, a, b, data) ==
    [graph EXCEPT !.edges = Append(@, [a |-> a, b |-> b, data |-> data])]

\* add_edge: with multigraph=False an existing edge between the two nodes is
\* updated instead of a parallel edge being added
rx_add_edge(graph, a, b, data) ==
    LET hit == { i \in DOMAIN graph.edges : rx_same_edge(graph, graph.edges[i], a, b) }
    IN  IF ~graph.multigraph /\ hit # {}
        THEN [graph EXCEPT !.edges =
                [i \in DOMAIN graph.edges |->
                    IF i \in hit THEN [graph.edges[i] EXCEPT !.data = data]
                    ELSE graph.edges[i]]]
        ELSE [graph EXCEPT !.edges = Append(@, [a |-> a, b |-> b, data |-> data])]

rx_num_nodes(graph) == Len(graph.nodes)
rx_num_edges(graph) == Len(graph.edges)

RECURSIVE rx_bfs(_, _)
\* the nodes reachable from the set S along edges read in both directions
rx_bfs(graph, S) ==
    LET N == S \cup { graph.edges[i].b : i \in { j \in DOMAIN graph.edges : graph.edges[j].a \in S } }
               \cup { graph.edges[i].a : i \in { j \in DOMAIN graph.edges : graph.edges[j].b \in S } }
    IN  IF N = S THEN S ELSE rx_bfs(graph, N)

RECURSIVE rx_components_from(_, _)
rx_components_from(graph, todo) ==
    IF todo = {} THEN <<>>
    ELSE LET v == CHOOSE i \in todo : \A j \in todo : i <= j
             comp == rx_bfs(graph, {v})
         IN  <<comp>> \o rx_components_from(graph, todo \ comp)

\* every node a component of its own
rx_singleton_components(graph) == [i \in DOMAIN graph.nodes |-> {i - 1}]

\* rustworkx.connected_components: one set of node indices per component, found
\* by a search started at each not yet visited node, in node index order
rx_connected_components(graph) == rx_components_from(graph, 0..(Len(graph.nodes) - 1))

RECURSIVE SortedByLenReverse(_)
\* sorted(components, key=len, reverse=True): stable, equal sizes keep their order
SortedByLenReverse(components) ==
    IF components = <<>> THEN <<>>
    ELSE LET m == CHOOSE i \in DOMAIN components : \A j \in DOMAIN components :
                    \/ Cardinality(components[i]) > Cardinality(components[j])
                    \/ (Cardinality(components[i]) = Cardinality(components[j]) /\ i <= j)
         IN  <<components[m]>>
             \o SortedByLenReverse(SubSeqByIdx(components, DOMAIN components \ {m}))

\* idx of the component counted from the end of the sorted order
ComponentIndexFromEnd(sorted_components, node_id) ==
    Len(sorted_components) - (CHOOSE i \in DOMAIN sorted_components : node_id \in sorted_components[i])

\* idx of the component (0-based, in the sorted order) that holds node_id
ComponentIndex(sorted_components, node_id) ==
    (CHOOSE i \in DOMAIN sorted_components : node_id \in sorted_components[i]) - 1

\* -------------------------------------------------------- component labelling
\* number of columns that start with '_': the position of the new column
UnderscoreCount(table) == Cardinality({ i \in DOMAIN table.cols : StartsWithUnderscore(table.cols[i]) })

\* pyarrow add_column(idx, name, values)
AddColumn(table, idx, name, values) ==
    Table(InsertAt(table.cols, idx, name),
          [i \in DOMAIN table.rows |-> (name :> values[i]) @@ table.rows[i]])

\* the graph built from the two tables: one graph node per nodes row (asserting
\* that the row's node id is its row position), one edge per edge row that is
\* not a self-loop.  add_edge raises on None or on an index that is no node.
ComponentGraph(nodes_table, edges_table) ==
    LET n == Len(nodes_table.rows)
        g0 == [rx_new(FALSE, FALSE) EXCEPT
                 !.nodes = [i \in 1..n |-> nodes_table.rows[i][NODE_ID_COLUMN_NAME]]]
        is_loop(r) == r[SOURCE_COLUMN_NAME] = r[TARGET_COLUMN_NAME]
        kept == SubSeqByIdx(edges_table.rows,
                            { i \in DOMAIN edges_table.rows : ~is_loop(edges_table.rows[i]) })
    IN  IF \E i \in 1..n : nodes_table.rows[i][NODE_ID_COLUMN_NAME] # i - 1
        THEN Err("AssertionError")
        ELSE IF \E i \in DOMAIN kept :
                    \/ ~rx_has_node(g0, kept[i][SOURCE_COLUMN_NAME])
                    \/ ~rx_has_node(g0, kept[i][TARGET_COLUMN_NAME])
        THEN Err("IndexError")
        ELSE Ok([g0 EXCEPT !.edges =
                    [i \in DOMAIN kept |-> [a |-> kept[i][SOURCE_COLUMN_NAME],
                                            b |-> kept[i][TARGET_COLUMN_NAME],
                                            data |-> NULL]]])

\* the edges of the multi-component path: edges_table JOIN nodes ON _source = _node_id
JoinEdgesWithNodes(nodes, edges_table) ==
    LET match(r) == { j \in DOMAIN nodes.rows :
                        SqlEq(r[SOURCE_COLUMN_NAME], nodes.rows[j][NODE_ID_COLUMN_NAME]) }
        kept == SubSeqByIdx(edges_table.rows,
                            { i \in DOMAIN edges_table.rows : match(edges_table.rows[i]) # {} })
        computed == FilterCols(edges_table.cols, ReservedNames)
        other == OtherColumns(edges_table)
        comp(r) == nodes.rows[CHOOSE j \in match(r) : TRUE][COMPONENT_ID_COLUMN_NAME]
    IN  Table(computed \o <<COMPONENT_ID_COLUMN_NAME>> \o other,
              [i \in DOMAIN kept |-> (COMPONENT_ID_COLUMN_NAME :> comp(kept[i])) @@ kept[i]])

augment_tables_with_component_ids(nodes_table, edges_table) ==
    LET graph == ComponentGraph(nodes_table, edges_table)
        components == rx_connected_components(graph.value)
        nodes_idx == UnderscoreCount(nodes_table)
        edges_idx == UnderscoreCount(edges_table)
        sorted_components == SortedByLenReverse(components)
        nodes == AddColumn(nodes_table, nodes_idx, COMPONENT_ID_COLUMN_NAME,
                           [i \in DOMAIN nodes_table.rows |->
                               ComponentIndex(sorted_components, i - 1)])
    IN  IF ~graph.ok THEN graph
        ELSE IF Len(components) = 1
        THEN Ok([nodes |-> AddColumn(nodes_table, nodes_idx, COMPONENT_ID_COLUMN_NAME,
                                     [i \in DOMAIN nodes_table.rows |-> 0]),
                 edges |-> AddColumn(edges_table, edges_idx, COMPONENT_ID_COLUMN_NAME,
                                     [i \in DOMAIN edges_table.rows |-> 0])])
        ELSE Ok([nodes |-> nodes, edges |-> JoinEdgesWithNodes(nodes, edges_table)])

\* ------------------------------------------------------------- NetworkData
HasNull(table, name) == \E i \in DOMAIN table.rows : table.rows[i][name] = NULL

\* the columns create_network_data marks as computed attributes
ComputedNodeColumns ==
    { NODE_ID_COLUMN_NAME, LABEL_COLUMN_NAME, CONNECTIONS_COLUMN_NAME,
      UNWEIGHTED_DEGREE_CENTRALITY_COLUMN_NAME, CONNECTIONS_MULTI_COLUMN_NAME,
      UNWEIGHTED_DEGREE_CENTRALITY_MULTI_COLUMN_NAME, IN_DIRECTED_COLUMN_NAME,
      IN_DIRECTED_MULTI_COLUMN_NAME, OUT_DIRECTED_COLUMN_NAME,
      OUT_DIRECTED_MULTI_COLUMN_NAME }

ComputedEdgeColumns ==
    { EDGE_ID_COLUMN_NAME, SOURCE_COLUMN_NAME, TARGET_COLUMN_NAME,
      COUNT_DIRECTED_COLUMN_NAME, COUNT_IDX_DIRECTED_COLUMN_NAME,
      COUNT_UNDIRECTED_COLUMN_NAME, COUNT_IDX_UNDIRECTED_COLUMN_NAME }

\* create_network_data: Ok(network data) or Err(exception).  worder is the row
\* order of the edge augmentation query (used when augment_tables is true).
create_network_data(nodes_table, edges_table, augment_tables, worder) ==
    LET e1 == augment_edges_table_with_id_and_weights(edges_table, worder)
        n1 == augment_nodes_table_with_connection_counts(nodes_table, e1)
        tables == IF augment_tables
                  THEN augment_tables_with_component_ids(n1, e1)
                  ELSE Ok([nodes |-> nodes_table, edges |-> edges_table])
    IN  IF ~tables.ok THEN tables
        ELSE IF HasNull(tables.value.edges, SOURCE_COLUMN_NAME) THEN Err("KiaraException")
        ELSE IF HasNull(tables.value.edges, TARGET_COLUMN_NAME) THEN Err("KiaraException")
        ELSE Ok([nodes |-> tables.value.nodes, edges |-> tables.value.edges,
                 nodes_computed |-> ComputedNodeColumns,
                 edges_computed |-> ComputedEdgeColumns])

num_nodes(network_data) == Len(network_data.nodes.rows)
num_edges(network_data) == Len(network_data.edges.rows)

\* ------------------------------------------------------ assemble.network_data
NODE_ID_ALIAS_NAMES == <<"id", "node_id">>
LABEL_ALIAS_NAMES == <<"label", "node_label">>
SOURCE_COLUMN_ALIAS_NAMES == <<"source", "sources", "source_id", "from", "sender">>
TARGET_COLUMN_ALIAS_NAMES == <<"target", "targets", "target_id", "to", "receiver">>

\* col_name.lower()
Lower(name) ==
    CASE name = "Id" -> "id"
      [] name = "Label" -> "label"
      [] name = "Source" -> "source"
      [] name = "Target" -> "target"
      [] OTHER -> name

NoName == "<none>"

\* for col_name in column_names: if col_name.lower() in column_names_to_test: ... break
AutoDetect(column_names, column_names_to_test) ==
    LET hits == { i \in DOMAIN column_names : Lower(column_names[i]) \in Range(column_names_to_test) }
    IN  IF hits = {} THEN NoName
        ELSE column_names[CHOOSE i \in hits : \A j \in hits : i <= j]

\* dict(zip(keys, range(len(keys)))): a later duplicate key overwrites an earlier one
ZipToRange(keys) ==
    [k \in Range(keys) |-> (CHOOSE i \in DOMAIN keys :
                              keys[i] = k /\ \A j \in DOMAIN keys : keys[j] = k => j <= i) - 1]

\* a lookup that gives 0 for a value the map does not have
MapDictOrZero(values, node_id_map) ==
    [i \in DOMAIN values |->
        IF values[i] \in DOMAIN node_id_map THEN node_id_map[values[i]] ELSE 0]

\* series.map_dict(node_id_map, default=None)
MapDict(values, node_id_map) ==
    [i \in DOMAIN values |->
        IF values[i] \in DOMAIN node_id_map THEN node_id_map[values[i]] ELSE NULL]

DropColumns(table, names) ==
    Table(FilterCols(table.cols, Range(table.cols) \ names),
          [i \in DOMAIN table.rows |-> Restrict(table.rows[i], Range(table.cols) \ names)])

\* insert_at_idx(idx, series)
InsertColumn(table, idx, name, values) == AddColumn(table, idx, name, values)

RECURSIVE UniqueInOrder(_)
\* the distinct values of a column in the order of their first appearance
UniqueInOrder(values) ==
    IF values = <<>> THEN <<>>
    ELSE LET rest == UniqueInOrder(SubSeq(values, 1, Len(values) - 1))
         IN  IF values[Len(values)] \in Range(rest) THEN rest
             ELSE Append(rest, values[Len(values)])

\* series.unique().sort()
UniqueSorted(values) == SortedSeq(Range(values))

\* the id column of the nodes table: the hint, else the first column of the
\* table whose lower-cased name is one of the aliases
IdColumnName(inputs) ==
    IF inputs.id_column = NoName
    THEN AutoDetect(inputs.nodes.cols, NODE_ID_ALIAS_NAMES)
    ELSE inputs.id_column

\* the label column of the nodes table, found the same way (NoName: none)
LabelColumnName(inputs) ==
    IF inputs.label_column = NoName
    THEN AutoDetect(inputs.nodes.cols, LABEL_ALIAS_NAMES)
    ELSE inputs.label_column

\* the source column of the edges table: the hint, else the first column of the
\* table whose lower-cased name is one of the aliases, else the first of the
\* two columns of a two-column table
SourceColumnName(inputs) ==
    LET src == IF inputs.source_column = NoName
               THEN AutoDetect(inputs.edges.cols, SOURCE_COLUMN_ALIAS_NAMES)
               ELSE inputs.source_column
        tgt == IF inputs.target_column = NoName
               THEN AutoDetect(inputs.edges.cols, TARGET_COLUMN_ALIAS_NAMES)
               ELSE inputs.target_column
    IN  IF src = NoName /\ tgt = NoName /\ Len(inputs.edges.cols) = 2
        THEN inputs.edges.cols[1] ELSE src

\* the target column of the edges table, found the same way
TargetColumnName(inputs) ==
    LET src == IF inputs.source_column = NoName
               THEN AutoDetect(inputs.edges.cols, SOURCE_COLUMN_ALIAS_NAMES)
               ELSE inputs.source_column
        tgt == IF inputs.target_column = NoName
               THEN AutoDetect(inputs.edges.cols, TARGET_COLUMN_ALIAS_NAMES)
               ELSE inputs.target_column
    IN  IF src = NoName /\ tgt = NoName /\ Len(inputs.edges.cols) = 2
        THEN inputs.edges.cols[2] ELSE tgt

\* AssembleGraphFromTablesModule.process.  inputs: [nodes_set, nodes, edges,
\* id_column, label_column, source_column, target_column] (NoName: not given).
AssembleProcess(inputs, worder) ==
    LET nodes_column_names == inputs.nodes.cols
        id_column_name == IdColumnName(inputs)
        label_detected == LabelColumnName(inputs)
        edges_column_names == inputs.edges.cols
        edges_source_column_name == SourceColumnName(inputs)
        edges_target_column_name == TargetColumnName(inputs)
        source_column_old == Column(inputs.edges, edges_source_column_name)
        target_column_old == Column(inputs.edges, edges_target_column_name)
        unique_node_ids_old == UniqueSorted(source_column_old \o target_column_old)
        \* no nodes table
        gen_map == ZipToRange(unique_node_ids_old)
        gen_nodes == Table(<<NODE_ID_COLUMN_NAME, LABEL_COLUMN_NAME, "id">>,
                           [i \in DOMAIN unique_node_ids_old |->
                               (NODE_ID_COLUMN_NAME :> i - 1)
                               @@ (LABEL_COLUMN_NAME :> Str(unique_node_ids_old[i]))
                               @@ ("id" :> unique_node_ids_old[i])])
        \* nodes table
        id_column_old == Column(inputs.nodes, id_column_name)
        tab_map == ZipToRange(id_column_old)
        with_id == InsertColumn(inputs.nodes, 0, NODE_ID_COLUMN_NAME,
                                [i \in DOMAIN id_column_old |-> i - 1])
        label_column_name == IF label_detected = NoName THEN NODE_ID_COLUMN_NAME
                             ELSE label_detected
        label_column == [i \in DOMAIN with_id.rows |->
                            IF with_id.rows[i][label_column_name] = NULL THEN NULL
                            ELSE Str(with_id.rows[i][label_column_name])]
        tab_nodes == InsertColumn(with_id, 1, LABEL_COLUMN_NAME, label_column)
        node_id_map == IF inputs.nodes_set THEN tab_map ELSE gen_map
        nodes_arrow_table == IF inputs.nodes_set THEN tab_nodes ELSE gen_nodes
        source_column_mapped == MapDict(source_column_old, node_id_map)
        target_column_mapped == MapDict(target_column_old, node_id_map)
        edges_arrow_table ==
            DropColumns(
                InsertColumn(
                    InsertColumn(inputs.edges, 0, SOURCE_COLUMN_NAME, source_column_mapped),
                    1, TARGET_COLUMN_NAME, target_column_mapped),
                {edges_source_column_name, edges_target_column_name})
    IN  IF inputs.nodes_set /\ id_column_name = NoName THEN Err("KiaraProcessingException")
        ELSE IF inputs.nodes_set /\ id_column_name \notin Range(nodes_column_names)
        THEN Err("KiaraProcessingException")
        ELSE IF inputs.nodes_set /\ label_detected # NoName
                /\ label_detected \notin Range(nodes_column_names)
        THEN Err("KiaraProcessingException")
        ELSE IF edges_source_column_name = NoName \/ edges_target_column_name = NoName
        THEN Err("KiaraProcessingException")
        ELSE IF edges_source_column_name \notin Range(edges_column_names)
                \/ edges_target_column_name \notin Range(edges_column_names)
        THEN Err("KiaraProcessingException")
        ELSE IF inputs.nodes_set
                /\ Len(unique_node_ids_old) > Cardinality(Range(id_column_old))
        THEN Err("NotImplementedError")
        ELSE IF inputs.nodes_set /\ \E i \in DOMAIN label_column : label_column[i] = NULL
        THEN Err("KiaraProcessingException")
        ELSE IF \E i \in DOMAIN source_column_mapped : source_column_mapped[i] = NULL
        THEN Err("KiaraProcessingException")
        ELSE IF \E i \in DOMAIN target_column_mapped : target_column_mapped[i] = NULL
        THEN Err("KiaraProcessingException")
        ELSE create_network_data(nodes_arrow_table, edges_arrow_table, TRUE, worder)

\* ------------------------------------------------------------ networkx graphs
\* A networkx graph: nodes is the sequence of [id, attrs] in insertion order,
\* edges the sequence of [u, v, attrs] in insertion order.
nx_new(graph_type) ==
    [directed |-> graph_type \in {"DiGraph", "MultiDiGraph"},
     multigraph |-> graph_type \in {"MultiGraph", "MultiDiGraph"},
     nodes |-> <<>>, edges |-> <<>>]

nx_has_node(graph, n) == \E i \in DOMAIN graph.nodes : graph.nodes[i].id = n

\* Graph.add_node(n, **attrs): a node that exists has its attributes updated
nx_add_node(graph, n, attrs) ==
    IF nx_has_node(graph, n)
    THEN [graph EXCEPT !.nodes =
            [i \in DOMAIN graph.nodes |->
                IF graph.nodes[i].id = n
                THEN [graph.nodes[i] EXCEPT !.attrs = attrs @@ @]
                ELSE graph.nodes[i]]]
    ELSE [graph EXCEPT !.nodes = Append(@, [id |-> n, attrs |-> attrs])]

nx_same_edge(graph, e, u, v) ==
    \/ (e.u = u /\ e.v = v)
    \/ (~graph.directed /\ e.u = v /\ e.v = u)

\* Graph.add_edge(u, v, **attrs): missing end nodes are created; a simple graph
\* updates the edge it already has, a multigraph adds one more
nx_add_edge(graph, u, v, attrs) ==
    LET g1 == IF nx_has_node(graph, u) THEN graph ELSE nx_add_node(graph, u, <<>>)
        g2 == IF nx_has_node(g1, v) THEN g1 ELSE nx_add_node(g1, v, <<>>)
        hit == { i \in DOMAIN g2.edges : nx_same_edge(g2, g2.edges[i], u, v) }
    IN  IF ~g2.multigraph /\ hit # {}
        THEN [g2 EXCEPT !.edges =
                [i \in DOMAIN g2.edges |->
                    IF i \in hit THEN [g2.edges[i] EXCEPT !.attrs = attrs @@ @]
                    ELSE g2.edges[i]]]
        ELSE [g2 EXCEPT !.edges = Append(@, [u |-> u, v |-> v, attrs |-> attrs])]

nx_number_of_nodes(graph) == Len(graph.nodes)
nx_number_of_edges(graph) == Len(graph.edges)

\* ------------------------------------------------------------------ exports
InclBool(flag) == [kind |-> "bool", flag |-> flag, names |-> <<>>]
InclStr(name) == [kind |-> "str", flag |-> TRUE, names |-> <<name>>]
InclList(names) == [kind |-> "list", flag |-> TRUE, names |-> names]

calculate_attributes(all_attr_names, base, incl) ==
    IF incl.kind = "bool" /\ ~incl.flag THEN Ok(base)
    ELSE IF incl.kind = "bool"
    THEN Ok(base \o FilterCols(all_attr_names, Range(all_attr_names) \ Range(base)))
    ELSE IF \E i \in DOMAIN incl.names : incl.names[i] \notin Range(all_attr_names)
    THEN Err("KiaraException")
    ELSE Ok(base \o incl.names)

_calculate_node_attributes(network_data, incl_node_attributes) ==
    IF incl_node_attributes.kind = "bool" /\ ~incl_node_attributes.flag
    THEN Ok(<<NODE_ID_COLUMN_NAME, LABEL_COLUMN_NAME>>)
    ELSE calculate_attributes(network_data.nodes.cols, <<NODE_ID_COLUMN_NAME>>,
                              incl_node_attributes)

_calculate_edge_attributes(network_data, incl_edge_attributes) ==
    calculate_attributes(network_data.edges.cols, <<SOURCE_COLUMN_NAME, TARGET_COLUMN_NAME>>,
                         incl_edge_attributes)

\* df.select(*names): the names have to be columns, each selected once
SelectFails(table, names) ==
    \/ \E i \in DOMAIN names : names[i] \notin Range(table.cols)
    \/ \E i, j \in DOMAIN names : i # j /\ names[i] = names[j]

\* the rows retrieve_graph_data hands to the edges callback
EdgeRowsToExport(network_data, omit_self_loops) ==
    SubSeqByIdx(network_data.edges.rows,
                { i \in DOMAIN network_data.edges.rows :
                    ~(omit_self_loops
                      /\ network_data.edges.rows[i][SOURCE_COLUMN_NAME]
                         = network_data.edges.rows[i][TARGET_COLUMN_NAME]) })

\* retrieve_graph_data with callbacks that record their keyword arguments: the
\* calls of the nodes callback, then the calls of the edges callback
retrieve_graph_data(network_data, incl_node_attributes, incl_edge_attributes, omit_self_loops) ==
    LET node_attr_names == _calculate_node_attributes(network_data, incl_node_attributes)
        edge_attr_names == _calculate_edge_attributes(network_data, incl_edge_attributes)
        edge_rows == EdgeRowsToExport(network_data, omit_self_loops)
    IN  IF ~node_attr_names.ok THEN node_attr_names
        ELSE IF SelectFails(network_data.nodes, node_attr_names.value)
        THEN Err("ColumnError")
        ELSE IF ~edge_attr_names.ok THEN edge_attr_names
        ELSE IF SelectFails(network_data.edges, edge_attr_names.value)
        THEN Err("ColumnError")
        ELSE Ok([nodes_callback |->
                    [i \in DOMAIN network_data.nodes.rows |->
                        Restrict(network_data.nodes.rows[i], Range(node_attr_names.value))],
                 edges_callback |->
                    [i \in DOMAIN edge_rows |->
                        Restrict(edge_rows[i], Range(edge_attr_names.value))]])

RECURSIVE nx_add_nodes(_, _, _, _)
nx_add_nodes(graph, rows, names, i) ==
    IF i > Len(rows) THEN graph
    ELSE nx_add_nodes(nx_add_node(graph, rows[i][NODE_ID_COLUMN_NAME],
                                  Restrict(rows[i], names \ {NODE_ID_COLUMN_NAME})),
                      rows, names, i + 1)

RECURSIVE nx_add_edges(_, _, _, _)
nx_add_edges(graph, rows, names, i) ==
    IF i > Len(rows) THEN graph
    ELSE nx_add_edges(nx_add_edge(graph, rows[i][SOURCE_COLUMN_NAME],
                                  rows[i][TARGET_COLUMN_NAME],
                                  Restrict(rows[i], names \ {SOURCE_COLUMN_NAME,
                                                             TARGET_COLUMN_NAME})),
                      rows, names, i + 1)

as_networkx_graph(network_data, graph_type, incl_node_attributes, incl_edge_attributes, omit_self_loops) ==
    LET node_attr_names == _calculate_node_attributes(network_data, incl_node_attributes)
        edge_attr_names == _calculate_edge_attributes(network_data, incl_edge_attributes)
        g1 == nx_add_nodes(nx_new(graph_type), network_data.nodes.rows,
                           Range(node_attr_names.value), 1)
    IN  IF ~node_attr_names.ok THEN node_attr_names
        ELSE IF SelectFails(network_data.nodes, node_attr_names.value)
        THEN Err("ColumnError")
        ELSE IF ~edge_attr_names.ok THEN edge_attr_names
        ELSE IF SelectFails(network_data.edges, edge_attr_names.value)
        THEN Err("ColumnError")
        ELSE Ok(nx_add_edges(g1, EdgeRowsToExport(network_data, omit_self_loops),
                             Range(edge_attr_names.value), 1))

\* node_map[graph_node_id] = _node_id for every nodes row: a bidict, so a node
\* id that is already a value of the map is refused
NodeMap(network_data) == Column(network_data.nodes, NODE_ID_COLUMN_NAME)

RECURSIVE rx_add_edges(_, _, _, _, _)
\* add_edge(_source, _target, **attrs): looks both ends up in node_map, keyed
\* by graph node id
rx_add_edges(graph, node_map, rows, names, i) ==
    IF i > Len(rows) THEN Ok(graph)
    ELSE LET _source == rows[i][SOURCE_COLUMN_NAME]
             _target == rows[i][TARGET_COLUMN_NAME]
             attrs == Restrict(rows[i], names \ {SOURCE_COLUMN_NAME, TARGET_COLUMN_NAME})
         IN  IF (_source + 1) \notin DOMAIN node_map \/ (_target + 1) \notin DOMAIN node_map
             THEN Err("KeyError")
             ELSE IF ~rx_has_node(graph, node_map[_source + 1])
                     \/ ~rx_has_node(graph, node_map[_target + 1])
             THEN Err("IndexError")
             ELSE rx_add_edges(rx_add_edge(graph, node_map[_source + 1],
                                           node_map[_target + 1],
                                           IF names \subseteq {SOURCE_COLUMN_NAME,
                                                               TARGET_COLUMN_NAME}
                                           THEN <<>> ELSE attrs),
                               node_map, rows, names, i + 1)

as_rustworkx_graph(network_data, graph_type, multigraph, incl_node_attributes, incl_edge_attributes, omit_self_loops, attach_node_id_map) ==
    LET node_attr_names == _calculate_node_attributes(network_data, incl_node_attributes)
        edge_attr_names == _calculate_edge_attributes(network_data, incl_edge_attributes)
        node_map == NodeMap(network_data)
        g0 == rx_new(graph_type = "PyDiGraph", multigraph)
        g1 == [g0 EXCEPT !.nodes =
                 [i \in DOMAIN network_data.nodes.rows |->
                     Restrict(network_data.nodes.rows[i], Range(node_attr_names.value))]]
        g2 == rx_add_edges(g1, node_map, EdgeRowsToExport(network_data, omit_self_loops),
                           Range(edge_attr_names.value), 1)
    IN  IF ~node_attr_names.ok THEN node_attr_names
        ELSE IF ~edge_attr_names.ok THEN edge_attr_names
        ELSE IF SelectFails(network_data.nodes, node_attr_names.value)
        THEN Err("ColumnError")
        ELSE IF \E i, j \in DOMAIN node_map : i # j /\ node_map[i] = node_map[j]
        THEN Err("ValueDuplicationError")
        ELSE IF SelectFails(network_data.edges, edge_attr_names.value)
        THEN Err("ColumnError")
        ELSE IF ~g2.ok THEN g2
        ELSE IF attach_node_id_map
        THEN Ok([g2.value EXCEPT !.attrs = <<node_map>>])
        ELSE g2

\* ----------------------------------------------------------------- metadata
\* SELECT COUNT(*) FROM table WHERE name >= value
CountWhereGe(table, name, value) ==
    Cardinality({ i \in DOMAIN table.rows : table.rows[i][name] >= value })

\* SELECT COUNT(*) FROM table WHERE name = value
CountWhereEq(table, name, value) ==
    Cardinality({ i \in DOMAIN table.rows : table.rows[i][name] = value })

\* SELECT _component_id, COUNT(*) FROM table GROUP BY _component_id, as a dict
GroupCount(table) ==
    [c \in Range(Column(table, COMPONENT_ID_COLUMN_NAME)) |->
        CountWhereEq(table, COMPONENT_ID_COLUMN_NAME, c)]

\* NetworkGraphProperties.create_value_metadata
create_value_metadata(network_data) ==
    LET edges == network_data.edges
        num_edges_directed == CountWhereEq(edges, COUNT_IDX_DIRECTED_COLUMN_NAME, 1)
        num_edges_undirected == CountWhereEq(edges, COUNT_IDX_UNDIRECTED_COLUMN_NAME, 1)
        num_self_loops ==
            Cardinality({ i \in DOMAIN edges.rows :
                            SqlEq(edges.rows[i][SOURCE_COLUMN_NAME],
                                  edges.rows[i][TARGET_COLUMN_NAME]) })
        num_parallel_edges_directed == CountWhereEq(edges, COUNT_IDX_DIRECTED_COLUMN_NAME, 2)
        num_parallel_edges_undirected ==
            CountWhereEq(edges, COUNT_IDX_UNDIRECTED_COLUMN_NAME, 2)
        nodes_data == GroupCount(network_data.nodes)
        edges_data == GroupCount(edges)
        components_data ==
            [c \in DOMAIN nodes_data |->
                [component_id |-> c, number_of_nodes |-> nodes_data[c],
                 number_of_associated_edge_rows |->
                    IF c \in DOMAIN edges_data THEN edges_data[c] ELSE 0]]
    IN  [number_of_nodes |-> num_nodes(network_data),
         properties_by_graph_type |->
            [directed |-> [number_of_edges |-> num_edges_directed, parallel_edges |-> 0],
             directed_multi |-> [number_of_edges |-> num_edges(network_data),
                                 parallel_edges |-> num_parallel_edges_directed],
             undirected |-> [number_of_edges |-> num_edges_undirected, parallel_edges |-> 0],
             undirected_multi |-> [number_of_edges |-> num_edges(network_data),
                                   parallel_edges |-> num_parallel_edges_undirected]],
         number_of_self_loops |-> num_self_loops,
         number_of_components |-> Cardinality(DOMAIN components_data),
         components |-> components_data]

\* ----------------------------------------------------------- networkx import
\* the position (1-based) of node n in the node order of the graph
nx_node_index(graph, n) == CHOOSE i \in DOMAIN graph.nodes : graph.nodes[i].id = n

\* the indices of keys ordered by ascending key (the keys are distinct)
OrderByKeys(keys) ==
    LET rank(i) == 1 + Cardinality({ j \in DOMAIN keys : keys[j] < keys[i] })
    IN  [p \in DOMAIN keys |-> CHOOSE i \in DOMAIN keys : rank(i) = p]

\* graph.edges(data=True): for each node in node order, for each neighbour in
\* the order it became one, each edge between the two; an undirected graph
\* reports an edge once, from the end node that comes first in node order
nx_edges(graph) ==
    LET E == graph.edges
        B == Len(E) + 1
        from(i) == IF graph.directed
                      \/ nx_node_index(graph, E[i].u) <= nx_node_index(graph, E[i].v)
                   THEN E[i].u ELSE E[i].v
        to(i) == IF from(i) = E[i].u THEN E[i].v ELSE E[i].u
        first(i) == CHOOSE j \in DOMAIN E :
                        /\ nx_same_edge(graph, E[j], E[i].u, E[i].v)
                        /\ \A k \in DOMAIN E :
                              nx_same_edge(graph, E[k], E[i].u, E[i].v) => j <= k
        keys == [i \in DOMAIN E |->
                    nx_node_index(graph, from(i)) * B * B + first(i) * B + i]
        order == OrderByKeys(keys)
    IN  [p \in DOMAIN E |-> [u |-> from(order[p]), v |-> to(order[p]),
                             attrs |-> E[order[p]].attrs]]

\* the attribute names of a sequence of [.., attrs] records, in first-seen
\* order of the record (dict.setdefault); the order inside one record is fixed
\* by the schema order names
AttrColumns(items, names) ==
    FilterCols(names, UNION { DOMAIN items[i].attrs : i \in DOMAIN items })

\* bool(label): None and 0 are false
Truthy(v) == v # NULL /\ v # 0

\* the label of a node: str(node_id) without label_attr_name (NoName), else
\* label = node_data.get(label_attr_name, None); str(label) if label else str(node_id)
NodeLabel(node, label_attr_name) ==
    LET label == IF label_attr_name \in DOMAIN node.attrs
                 THEN node.attrs[label_attr_name] ELSE NULL
    IN  IF label_attr_name = NoName THEN Str(node.id)
        ELSE IF Truthy(label) THEN Str(label)
        ELSE Str(node.id)

\* extract_networkx_nodes_as_table: Ok([table, map]); ignore_attributes is the
\* set of attribute names to skip (empty for None)
extract_networkx_nodes_as_table(graph, names, label_attr_name, ignore_attributes) ==
    LET kept == [i \in DOMAIN graph.nodes |-> DOMAIN graph.nodes[i].attrs \ ignore_attributes]
        attr_cols == FilterCols(names, UNION { kept[i] : i \in DOMAIN graph.nodes })
    IN  IF \E i \in DOMAIN graph.nodes : \E k \in kept[i] : StartsWithUnderscore(k)
        THEN Err("KiaraException")
        ELSE IF \E i \in DOMAIN graph.nodes : kept[i] # Range(attr_cols)
        THEN Err("ArrowInvalid")
        ELSE Ok([table |->
                    Table(<<NODE_ID_COLUMN_NAME, LABEL_COLUMN_NAME>> \o attr_cols,
                          [i \in DOMAIN graph.nodes |->
                              (NODE_ID_COLUMN_NAME :> i - 1)
                              @@ (LABEL_COLUMN_NAME :> NodeLabel(graph.nodes[i], label_attr_name))
                              @@ Restrict(graph.nodes[i].attrs, kept[i])]),
                 nodes_map |-> [i \in DOMAIN graph.nodes |-> graph.nodes[i].id]])

\* extract_networkx_edges_as_table: every end node of an edge is a node of the
\* graph, so node_id_map has it; max() of an empty map raises
extract_networkx_edges_as_table(graph, nodes_map, names) ==
    LET edges == nx_edges(graph)
        attr_cols == AttrColumns(edges, names)
        id(n) == (CHOOSE i \in DOMAIN nodes_map : nodes_map[i] = n) - 1
    IN  IF nodes_map = <<>> THEN Err("ValueError")
        ELSE IF \E i \in DOMAIN edges : \E k \in DOMAIN edges[i].attrs :
                   StartsWithUnderscore(k)
        THEN Err("KiaraException")
        ELSE IF \E i \in DOMAIN edges : DOMAIN edges[i].attrs # Range(attr_cols)
        THEN Err("ArrowInvalid")
        ELSE Ok(Table(<<SOURCE_COLUMN_NAME, TARGET_COLUMN_NAME>> \o attr_cols,
                      [i \in DOMAIN edges |->
                          (SOURCE_COLUMN_NAME :> id(edges[i].u))
                          @@ (TARGET_COLUMN_NAME :> id(edges[i].v))
                          @@ edges[i].attrs]))

create_from_networkx_graph(graph, label_attr_name, ignore_node_attributes, node_names, edge_names, worder) ==
    LET nodes == extract_networkx_nodes_as_table(graph, node_names, label_attr_name,
                                                 ignore_node_attributes)
        edges_table == extract_networkx_edges_as_table(graph, nodes.value.nodes_map, edge_names)
    IN  IF ~nodes.ok THEN nodes
        ELSE IF ~edges_table.ok THEN edges_table
        ELSE create_network_data(nodes.value.table, edges_table.value, TRUE, worder)

\* ---------------------------------------------------------------- filtering
SelectColumns(table, names) ==
    Table(names, [i \in DOMAIN table.rows |-> Restrict(table.rows[i], Range(names))])

\* the rows of the table at the positions idxs, in table order
WhereRows(table, idxs) == Table(table.cols, SubSeqByIdx(table.rows, idxs))

\* replace_strict(repl_map, default=None)
ReplaceStrict(table, name, repl_map) ==
    Table(table.cols,
          [i \in DOMAIN table.rows |->
              [table.rows[i] EXCEPT ![name] =
                  IF @ \in DOMAIN repl_map THEN repl_map[@] ELSE NULL]])

\* NetworkData.from_filtered_nodes; only columns whose metadata is not that of
\* a computed attribute are carried over, and every column metadata the
\* program attaches is one of a computed attribute
from_filtered_nodes(network_data, nodes_list, worder) ==
    LET node_columns == <<NODE_ID_COLUMN_NAME, LABEL_COLUMN_NAME>>
        edge_columns == <<SOURCE_COLUMN_NAME, TARGET_COLUMN_NAME>>
        nodes_result == SelectColumns(
                          WhereRows(network_data.nodes,
                                    { i \in DOMAIN network_data.nodes.rows :
                                        network_data.nodes.rows[i][NODE_ID_COLUMN_NAME]
                                            \in Range(nodes_list) }),
                          node_columns)
        edges_result == SelectColumns(
                          WhereRows(network_data.edges,
                                    { i \in DOMAIN network_data.edges.rows :
                                        \/ network_data.edges.rows[i][SOURCE_COLUMN_NAME]
                                              \in Range(nodes_list)
                                        \/ network_data.edges.rows[i][TARGET_COLUMN_NAME]
                                              \in Range(nodes_list) }),
                          edge_columns)
        repl_map == ZipToRange(Column(nodes_result, NODE_ID_COLUMN_NAME))
    IN  IF nodes_list = <<>> THEN Err("ParserException")
        ELSE create_network_data(
                ReplaceStrict(nodes_result, NODE_ID_COLUMN_NAME, repl_map),
                ReplaceStrict(ReplaceStrict(edges_result, SOURCE_COLUMN_NAME, repl_map),
                              TARGET_COLUMN_NAME, repl_map),
                TRUE, worder)

\* NetworkDataFiltersModule.filter__select_component
filter__select_component(network_data, component_id, worder) ==
    LET nodes_table == network_data.nodes
        edges_table == network_data.edges
        nodes_table_columns == <<LABEL_COLUMN_NAME>> \o OtherColumns(nodes_table)
        picked == OrderByNodeId(
                    WhereRows(nodes_table,
                              { i \in DOMAIN nodes_table.rows :
                                  nodes_table.rows[i][COMPONENT_ID_COLUMN_NAME]
                                      = component_id }).rows)
        nodes_result ==
            Table(<<NODE_ID_COLUMN_NAME, "old_node_id">> \o nodes_table_columns,
                  [i \in DOMAIN picked |->
                      (NODE_ID_COLUMN_NAME :> i - 1)
                      @@ ("old_node_id" :> picked[i][NODE_ID_COLUMN_NAME])
                      @@ Restrict(picked[i], Range(nodes_table_columns))])
        new_id(old) == { nodes_result.rows[i][NODE_ID_COLUMN_NAME] :
                            i \in { j \in DOMAIN nodes_result.rows :
                                      SqlEq(old, nodes_result.rows[j]["old_node_id"]) } }
        edges_other == OtherColumns(edges_table)
        joined == WhereRows(edges_table,
                            { i \in DOMAIN edges_table.rows :
                                /\ new_id(edges_table.rows[i][SOURCE_COLUMN_NAME]) # {}
                                /\ new_id(edges_table.rows[i][TARGET_COLUMN_NAME]) # {}
                                /\ edges_table.rows[i][COMPONENT_ID_COLUMN_NAME]
                                      = component_id }).rows
        edges_result ==
            Table(<<SOURCE_COLUMN_NAME, "old_source_id", TARGET_COLUMN_NAME, "old_target_id">>
                    \o edges_other,
                  [i \in DOMAIN joined |->
                      (SOURCE_COLUMN_NAME :>
                          CHOOSE x \in new_id(joined[i][SOURCE_COLUMN_NAME]) : TRUE)
                      @@ ("old_source_id" :> joined[i][SOURCE_COLUMN_NAME])
                      @@ (TARGET_COLUMN_NAME :>
                          CHOOSE x \in new_id(joined[i][TARGET_COLUMN_NAME]) : TRUE)
                      @@ ("old_target_id" :> joined[i][TARGET_COLUMN_NAME])
                      @@ Restrict(joined[i], Range(edges_other))])
    IN  create_network_data(nodes_result, edges_result, TRUE, worder)

\* the nodes query without its WHERE clause: every node id is listed
filter__component_unfiltered(network_data, component_id, component_column, worder) ==
    from_filtered_nodes(network_data, Column(network_data.nodes, NODE_ID_COLUMN_NAME),
                        [i \in 1..num_edges(network_data) |-> i])

\* TableFiltersModule.filter__component: the node ids of the rows whose
\* component column holds component_id, handed to from_filtered_nodes
filter__component(network_data, component_id, component_column, worder) ==
    IF component_column \notin Range(network_data.nodes.cols)
    THEN Err("KiaraProcessingException")
    ELSE from_filtered_nodes(
            network_data,
            Column(WhereRows(network_data.nodes,
                             { i \in DOMAIN network_data.nodes.rows :
                                 network_data.nodes.rows[i][component_column] = component_id }),
                   NODE_ID_COLUMN_NAME),
            worder)

\* ------------------------------------------------------- component extraction
\* pyarrow append_column: the new column comes last; a column of that name that
\* is already there stays in the schema
AppendColumn(table, name, values) ==
    Table(Append(table.cols, name),
          [i \in DOMAIN table.rows |-> (name :> values[i]) @@ table.rows[i]])

\* the component column: all 0 for one component, else the rank of the
\* component of each node id, in ascending order of node id
ComponentsColumn(network_data, node_id_map, undir_components, sorted_components) ==
    LET nodes == UNION Range(undir_components)
        node_components ==
            [id \in { node_id_map[node + 1] : node \in nodes } |->
                ComponentIndex(sorted_components,
                               CHOOSE node \in nodes : node_id_map[node + 1] = id)]
        keys == SortedSeq(DOMAIN node_components)
    IN  IF Len(undir_components) = 1
        THEN Ok([i \in DOMAIN network_data.nodes.rows |-> 0])
        ELSE IF Len(keys) # num_nodes(network_data) THEN Err("KiaraException")
        ELSE Ok([i \in DOMAIN keys |-> node_components[keys[i]]])

ExtractResult(network_data, undir_components, components_column, result) ==
    IF ~result.ok THEN result
    ELSE Ok([network_data |-> result.value,
             components_column |-> components_column,
             number_of_components |-> Len(undir_components),
             is_connected |-> Len(undir_components) = 1])

ExtractWithColumn(network_data, undir_components, components_column) ==
    IF ~components_column.ok THEN components_column
    ELSE IF Len(components_column.value) # num_nodes(network_data) THEN Err("ArrowInvalid")
    ELSE ExtractResult(network_data, undir_components, components_column.value,
                       create_network_data(
                           AppendColumn(network_data.nodes, COMPONENT_ID_COLUMN_NAME,
                                        components_column.value),
                           network_data.edges, FALSE, <<>>))

ExtractWithComponents(network_data, node_id_map, undir_components) ==
    ExtractWithColumn(network_data, undir_components,
                      ComponentsColumn(network_data, node_id_map, undir_components,
                                       SortedByLenReverse(undir_components)))

ExtractWithGraph(network_data, undir_graph) ==
    IF ~undir_graph.ok THEN undir_graph
    ELSE ExtractWithComponents(network_data, undir_graph.value.attrs[1],
                               rx_connected_components(undir_graph.value))

\* ExtractLargestComponentModule.process: Ok([network_data, components_column,
\* number_of_components, is_connected]) or Err(exception)
extract_components(network_data) ==
    ExtractWithGraph(network_data,
                     as_rustworkx_graph(network_data, "PyGraph", FALSE, InclBool(FALSE),
                                        InclBool(FALSE), FALSE, TRUE))

\* NetworkDataType.parse_python_obj on a KiaraTables with both tables
parse_python_obj(nodes_table, edges_table) ==
    create_network_data(nodes_table, edges_table, FALSE, <<>>)

\* ------------------------------------------------------------------ cut points
IS_CUTPOINT_COLUMN_NAME == "is_cut_point"

RECURSIVE AppendColumns(_, _)
\* for col_name, col_data in columns.items(): table = table.append_column(..)
AppendColumns(table, columns) ==
    IF columns = <<>> THEN table
    ELSE AppendColumns(AppendColumn(table, columns[1].name, columns[1].values),
                       SubSeq(columns, 2, Len(columns)))

\* NetworkData.create_augmented; the additional columns are sequences of
\* [name, values], empty for None
create_augmented(network_data, additional_edges_columns, additional_nodes_columns) ==
    create_network_data(AppendColumns(network_data.nodes, additional_nodes_columns),
                        AppendColumns(network_data.edges, additional_edges_columns),
                        FALSE, <<>>)

\* Python values of a result set: an int, or a generator object that has not
\* been consumed, with the values it would yield
PyInt(n) == [type |-> "int", value |-> n, yields |-> {}]
PyGenerator(values) == [type |-> "generator", value |-> NULL, yields |-> values]

\* NetworkData.component_ids: SELECT DISTINCT _component_id FROM nodes_table;
\* the result is the set display {(x[0] for x in rows)}, a set whose one
\* element is the generator expression
component_ids(network_data) ==
    LET rows == Range(Column(network_data.nodes, COMPONENT_ID_COLUMN_NAME))
    IN  { PyGenerator(rows) }

\* query_nodes / query_edges with 'SELECT * FROM t WHERE name = value'
query_where(table, name, value) ==
    WhereRows(table, { i \in DOMAIN table.rows : SqlEq(table.rows[i][name], value) })

RECURSIVE rx_bfs_without(_, _, _)
\* the nodes reachable from the set S when the node v is removed
rx_bfs_without(graph, S, v) ==
    LET N == S \cup { graph.edges[i].b : i \in { j \in DOMAIN graph.edges :
                                                  graph.edges[j].a \in S /\ graph.edges[j].b # v } }
               \cup { graph.edges[i].a : i \in { j \in DOMAIN graph.edges :
                                                  graph.edges[j].b \in S /\ graph.edges[j].a # v } }
    IN  IF N = S THEN S ELSE rx_bfs_without(graph, N, v)

\* rustworkx.articulation_points: the node indices whose removal leaves two
\* of their neighbours unconnected
rx_articulation_points(graph) ==
    { v \in 0..(Len(graph.nodes) - 1) :
        \E x, y \in rx_bfs(graph, {v}) \ {v} : y \notin rx_bfs_without(graph, {x}, v) }

\* the column, the new nodes table and the NetworkData built from them
CutPointsResult(network_data, translated_cut_points) ==
    create_network_data(
        AppendColumn(network_data.nodes, IS_CUTPOINT_COLUMN_NAME,
                     [i \in 1..num_nodes(network_data) |-> (i - 1) \in translated_cut_points]),
        network_data.edges, FALSE, <<>>)

CutPointsWithGraph(network_data, undir_graph, cut_points) ==
    IF cut_points = {} THEN Err("NotImplementedError")
    ELSE CutPointsResult(network_data, { undir_graph.attrs[1][x + 1] : x \in cut_points })

\* CutPointsList.process: Ok(network data) or Err(exception)
extract_cut_points(network_data, undir_graph) ==
    IF ~undir_graph.ok THEN undir_graph
    ELSE CutPointsWithGraph(network_data, undir_graph.value,
                            rx_articulation_points(undir_graph.value))

\* ------------------------------------------------------------------- state
VARIABLES
    inputs,     \* the tables (and column hints) given to the program
    nd,         \* the current NetworkData: Ok(network data) or Err(exception)
    prev,       \* the NetworkData the current one was derived from
    out,        \* the result of the last read-only operation on nd
    op,         \* the last operation and its arguments
    status      \* "input", "built", "derived", "error"

vars == <<inputs, nd, prev, out, op, status>>

NoData == Err("unset")
NoOut == [kind |-> "none"]
NoOp == [name |-> "none"]

\* the original node identifiers of the input tables
OrigId(i) == 10 * i

\* the edges tables with m rows over the first n original ids; the weight of a
\* row identifies the row
EdgeTables(n, m) ==
    { Table(<<"source", "target", "weight">>,
            [i \in 1..m |-> [source |-> OrigId(f[i][1]), target |-> OrigId(f[i][2]),
                             weight |-> 100 + i]]) :
        f \in [1..m -> (1..n) \X (1..n)] }

\* a nodes table with the first n original ids, highest first
NodesTable(n) ==
    Table(<<"id">>, [i \in 1..n |-> [id |-> OrigId(n + 1 - i)]])

Min(a, b) == IF a <= b THEN a ELSE b

AssembleInputs ==
    UNION { UNION { { [kind |-> "tables", nodes_set |-> ns,
                       nodes |-> IF ns THEN NodesTable(n) ELSE Table(<<>>, <<>>),
                       edges |-> e, id_column |-> NoName, label_column |-> NoName,
                       source_column |-> NoName, target_column |-> NoName] :
                      e \in EdgeTables(n, m), ns \in BOOLEAN } :
                    m \in 0..Min(MaxEdges, MaxSize - n) } :
            n \in 0..MaxNodes }

\* the arguments of create_from_networkx_graph: the graph by its type, the
\* attributes of its nodes OrigId(1), OrigId(2), .. and the table of its edges
GraphInput(graph_type, node_attrs, edges, label_attr_name, ignore_node_attributes) ==
    [kind |-> "networkx", graph_type |-> graph_type, node_attrs |-> node_attrs,
     edges |-> edges, label_attr_name |-> label_attr_name,
     ignore_node_attributes |-> ignore_node_attributes]

\* the attribute names of the graphs, in the order a node or an edge holds them
NodeAttrNames == <<"name", "label", "_flag">>
EdgeAttrNames == <<"weight", "_flag">>

\* the networkx graphs a caller builds from n nodes and m weighted edges
GraphInputs ==
    UNION { UNION { { GraphInput(gt, [i \in 1..n |-> [name |-> Str(OrigId(i))]], e,
                                 NoName, {}) :
                      e \in EdgeTables(n, m), gt \in {"Graph", "MultiDiGraph"} } :
                    m \in 0..Min(MaxGraphEdges, MaxSize - n) } :
            n \in 0..MaxNodes }

\* g = graph_type(); g.add_node(id, **attrs) for each id; g.add_edge(u, v, **attrs)
InputGraph(input) ==
    LET g0 == nx_new(input.graph_type)
        g1 == [g0 EXCEPT !.nodes =
                  [i \in DOMAIN input.node_attrs |->
                      [id |-> OrigId(i), attrs |-> input.node_attrs[i]]]]
        attr_names == Range(input.edges.cols) \ {"source", "target"}
    IN  nx_add_edges(g1,
                     [i \in DOMAIN input.edges.rows |->
                        (SOURCE_COLUMN_NAME :> input.edges.rows[i]["source"])
                        @@ (TARGET_COLUMN_NAME :> input.edges.rows[i]["target"])
                        @@ Restrict(input.edges.rows[i], attr_names)],
                     {SOURCE_COLUMN_NAME, TARGET_COLUMN_NAME} \cup attr_names, 1)

Init ==
    /\ (inputs \in AssembleInputs \/ inputs \in GraphInputs)
    /\ nd = NoData
    /\ prev = NoData
    /\ out = NoOut
    /\ op = NoOp
    /\ status = "input"

\* a construction from the inputs
Built(result, operation) ==
    /\ nd' = result
    /\ status' = IF result.ok THEN "built" ELSE "error"
    /\ op' = operation
    /\ prev' = NoData
    /\ out' = NoOut
    /\ UNCHANGED inputs

\* a construction from the current NetworkData
Derived(result, operation) ==
    /\ nd' = result
    /\ status' = IF result.ok THEN "derived" ELSE "error"
    /\ op' = operation
    /\ prev' = nd
    /\ out' = NoOut
    /\ UNCHANGED inputs

\* an operation that replaces the tables of the NetworkData it reads
ReadInPlace(result, operation) ==
    /\ out' = result
    /\ op' = operation
    /\ nd' = Ok([nodes |-> nd.value.edges, edges |-> nd.value.edges])
    /\ UNCHANGED <<inputs, prev, status>>

\* a read-only operation on the current NetworkData
Read(result, operation) ==
    /\ out' = result
    /\ op' = operation
    /\ UNCHANGED <<inputs, nd, prev, status>>

\* a NetworkData that has not been read yet
Fresh == status \in {"built", "derived"} /\ out.kind = "none"

Assemble ==
    /\ status = "input"
    /\ inputs.kind = "tables"
    /\ \E worder \in Perms(Len(inputs.edges.rows)) :
          Built(AssembleProcess(inputs, worder), [name |-> "assemble.network_data"])

CreateFromNetworkxGraph ==
    /\ status = "input"
    /\ inputs.kind = "networkx"
    /\ LET graph == InputGraph(inputs)
       IN  \E worder \in Perms(Len(graph.edges)) :
              Built(create_from_networkx_graph(graph, inputs.label_attr_name,
                                               inputs.ignore_node_attributes,
                                               NodeAttrNames, EdgeAttrNames, worder),
                    [name |-> "create_from_networkx_graph"])

GraphTypes == {"Graph", "DiGraph", "MultiGraph", "MultiDiGraph"}
RxGraphTypes == {"PyGraph", "PyDiGraph"}

AsNetworkxGraph ==
    /\ Fresh
    /\ status = "built"
    /\ \E graph_type \in GraphTypes, incl_node_attributes, incl_edge_attributes \in BOOLEAN,
          omit_self_loops \in BOOLEAN :
          Read([kind |-> "networkx",
                result |-> as_networkx_graph(nd.value, graph_type,
                                             InclBool(incl_node_attributes),
                                             InclBool(incl_edge_attributes), omit_self_loops)],
               [name |-> "as_networkx_graph", graph_type |-> graph_type,
                incl_node_attributes |-> incl_node_attributes,
                incl_edge_attributes |-> incl_edge_attributes,
                omit_self_loops |-> omit_self_loops])

AsRustworkxGraph ==
    /\ Fresh
    /\ status = "built"
    /\ \E graph_type \in RxGraphTypes, multigraph \in BOOLEAN, incl \in BOOLEAN,
          omit_self_loops \in BOOLEAN, attach_node_id_map \in BOOLEAN :
          Read([kind |-> "rustworkx",
                result |-> as_rustworkx_graph(nd.value, graph_type, multigraph,
                                              InclBool(incl), InclBool(incl),
                                              omit_self_loops, attach_node_id_map)],
               [name |-> "as_rustworkx_graph", graph_type |-> graph_type,
                multigraph |-> multigraph, incl_node_attributes |-> incl,
                incl_edge_attributes |-> incl, omit_self_loops |-> omit_self_loops,
                attach_node_id_map |-> attach_node_id_map])

CreateValueMetadata ==
    /\ Fresh
    /\ Read([kind |-> "metadata", result |-> Ok(create_value_metadata(nd.value))],
            [name |-> "create_value_metadata"])

\* create_from_networkx_graph on the graph just exported
ReimportExported ==
    /\ status = "built"
    /\ out.kind = "networkx"
    /\ out.result.ok
    /\ \E worder \in Perms(Len(out.result.value.edges)) :
          Derived(create_from_networkx_graph(out.result.value, NoName, {},
                                             nd.value.nodes.cols, nd.value.edges.cols,
                                             worder),
                  [name |-> "reimport", export |-> op])

FromFilteredNodes ==
    /\ Fresh
    /\ status = "built"
    /\ \E S \in SUBSET Range(Column(nd.value.nodes, NODE_ID_COLUMN_NAME)) :
       \E worder \in Perms(Cardinality({ i \in DOMAIN nd.value.edges.rows :
                                \/ nd.value.edges.rows[i][SOURCE_COLUMN_NAME] \in S
                                \/ nd.value.edges.rows[i][TARGET_COLUMN_NAME] \in S })) :
          Derived(from_filtered_nodes(nd.value, SortedSeq(S), worder),
                  [name |-> "from_filtered_nodes", nodes_list |-> SortedSeq(S)])

SelectComponent ==
    /\ Fresh
    /\ status = "built"
    /\ \E component_id \in 0..(MaxNodes - 1) :
       \E worder \in Perms(Cardinality({ i \in DOMAIN nd.value.edges.rows :
                                nd.value.edges.rows[i][COMPONENT_ID_COLUMN_NAME]
                                    = component_id })) :
          Derived(filter__select_component(nd.value, component_id, worder),
                  [name |-> "select_component", component_id |-> component_id])

FilterComponent ==
    /\ Fresh
    /\ status = "built"
    /\ \E component_id \in 0..(MaxNodes - 1) :
       \E worder \in Perms(Cardinality({ i \in DOMAIN nd.value.edges.rows :
                                nd.value.edges.rows[i][COMPONENT_ID_COLUMN_NAME]
                                    = component_id })) :
          Derived(filter__component(nd.value, component_id, COMPONENT_ID_COLUMN_NAME, worder),
                  [name |-> "filter_component", component_id |-> component_id])

ExtractComponents ==
    /\ Fresh
    /\ status = "built"
    /\ out' = [kind |-> "components", result |-> extract_components(nd.value)]
    /\ nd' = IF out'.result.ok THEN Ok(out'.result.value.network_data) ELSE out'.result
    /\ status' = IF out'.result.ok THEN "extracted" ELSE "error"
    /\ op' = [name |-> "extract_components"]
    /\ prev' = nd
    /\ UNCHANGED inputs

ExtractCutPoints ==
    /\ Fresh
    /\ status = "built"
    /\ nd' = extract_cut_points(nd.value,
                                as_rustworkx_graph(nd.value, "PyGraph", FALSE, InclBool(FALSE),
                                                   InclBool(FALSE), FALSE, TRUE))
    /\ status' = IF nd'.ok THEN "cut_points" ELSE "error"
    /\ op' = [name |-> "extract_cut_points"]
    /\ prev' = nd
    /\ out' = NoOut
    /\ UNCHANGED inputs

Next ==
    \/ Assemble
    \/ CreateFromNetworkxGraph
    \/ AsNetworkxGraph
    \/ AsRustworkxGraph
    \/ CreateValueMetadata
    \/ ReimportExported
    \/ FromFilteredNodes
    \/ SelectComponent
    \/ FilterComponent
    \/ ExtractComponents
    \/ ExtractCutPoints

Spec == Init /\ [][Next]_vars

\* ------------------------------------------------- raw tables (no assembly)
\* the cell values a caller can put in an id column
RawIds == {NULL} \cup 0..MaxRawId

RawNodesTables ==
    UNION { { Table(<<NODE_ID_COLUMN_NAME, LABEL_COLUMN_NAME>>,
                    [i \in 1..m |-> (NODE_ID_COLUMN_NAME :> f[i])
                                    @@ (LABEL_COLUMN_NAME :> Str(i))]) :
                f \in [1..m -> RawIds] } :
            m \in 0..MaxRawRows }

RawEdgesTables ==
    UNION { { Table(<<SOURCE_COLUMN_NAME, TARGET_COLUMN_NAME>>,
                    [i \in 1..m |-> (SOURCE_COLUMN_NAME :> f[i][1])
                                    @@ (TARGET_COLUMN_NAME :> f[i][2])]) :
                f \in [1..m -> RawIds \X RawIds] } :
            m \in 0..MaxRawRows }

InitRaw ==
    /\ inputs \in [kind : {"raw"}, nodes : RawNodesTables, edges : RawEdgesTables]
    /\ nd = NoData
    /\ prev = NoData
    /\ out = NoOut
    /\ op = NoOp
    /\ status = "input"

CreateNetworkData ==
    /\ status = "input"
    /\ inputs.kind = "raw"
    /\ \E augment_tables \in BOOLEAN :
       \E worder \in Perms(Len(inputs.edges.rows)) :
          Built(create_network_data(inputs.nodes, inputs.edges, augment_tables, worder),
                [name |-> "create_network_data", augment_tables |-> augment_tables])

ParsePythonObj ==
    /\ status = "input"
    /\ inputs.kind = "raw"
    /\ Built(parse_python_obj(inputs.nodes, inputs.edges), [name |-> "parse_python_obj"])

NextRaw ==
    \/ CreateNetworkData
    \/ ParsePythonObj

SpecRaw == InitRaw /\ [][NextRaw]_vars

\* --------------------------------------------- ingestion of arbitrary tables
MaxIngestNodes == 2
MaxIngestEdges == 1

\* the inputs of assemble.network_data with every column hint omitted
TablesInput(nodes_set, nodes, edges) ==
    [kind |-> "tables", nodes_set |-> nodes_set, nodes |-> nodes, edges |-> edges,
     id_column |-> NoName, label_column |-> NoName,
     source_column |-> NoName, target_column |-> NoName]

\* the nodes tables with an id column only: every sequence of up to
\* MaxIngestNodes original ids, repeated ids included
IdNodesTables ==
    UNION { { Table(<<"id">>, [i \in 1..n |-> [id |-> OrigId(f[i])]]) :
                f \in [1..n -> 1..MaxIngestNodes] } :
            n \in 0..MaxIngestNodes }

\* the edges tables over the original ids of the nodes tables and one more
IngestEdgesTables ==
    UNION { EdgeTables(MaxIngestNodes + 1, m) : m \in 0..MaxIngestEdges }

IdInputs ==
    { TablesInput(TRUE, n, e) : n \in IdNodesTables, e \in IngestEdgesTables }

\* the values of a label: None, 0 and another number
LabelValues == {NULL, 0, 7}

\* a node without the attribute
Absent == 0 - 2

\* the nodes tables with distinct ids and a label column
LabelNodesTables(n) ==
    { Table(<<"id", "label">>, [i \in 1..n |-> [id |-> OrigId(i), label |-> f[i]]]) :
        f \in [1..n -> LabelValues] }

LabelInputs ==
    UNION { UNION { { TablesInput(TRUE, t, e) :
                        t \in LabelNodesTables(n), e \in EdgeTables(n, m) } :
                    m \in 0..MaxIngestEdges } :
            n \in 0..MaxIngestNodes }

\* the graphs whose nodes have a 'label' attribute or lack it, imported with
\* label_attr_name='label', with and without ignoring the attribute itself
LabelGraphInputs ==
    UNION { UNION { { GraphInput("Graph",
                                 [i \in 1..n |-> IF f[i] = Absent THEN <<>>
                                                 ELSE [label |-> f[i]]],
                                 e, "label", ign) :
                        f \in [1..n -> LabelValues \cup {Absent}],
                        e \in EdgeTables(n, m), ign \in {{}, {"label"}} } :
                    m \in 0..MaxIngestEdges } :
            n \in 0..MaxIngestNodes }

\* the original id after OrigId(i) in the cycle of the first MaxIngestNodes ids
NextOrigId(v) == OrigId(1 + ((v \div 10) % MaxIngestNodes))

\* the nodes tables with two columns that carry an alias of the id column, in
\* both column orders; the two columns number the same rows differently
AliasNodesTables ==
    { Table(cols, [i \in 1..MaxIngestNodes |->
                      [id |-> OrigId(i), node_id |-> NextOrigId(OrigId(i))]]) :
        cols \in { <<"id", "node_id">>, <<"node_id", "id">> } }

\* the column layouts of an edges table: besides 'source' and 'target' a
\* second source alias ('from') or a second target alias ('to')
AliasEdgesLayouts ==
    { <<"source", "target", "weight">>, <<"from", "source", "target", "weight">>,
      <<"source", "from", "target", "weight">>, <<"source", "to", "target", "weight">> }

AliasEdgesTables ==
    UNION { { Table(cols, [i \in DOMAIN e.rows |->
                              Restrict(e.rows[i]
                                       @@ ("from" :> NextOrigId(e.rows[i]["source"]))
                                       @@ ("to" :> NextOrigId(e.rows[i]["target"])),
                                       Range(cols))]) :
                e \in EdgeTables(MaxIngestNodes, m), cols \in AliasEdgesLayouts } :
            m \in 0..MaxIngestEdges }

AliasInputs ==
    { TablesInput(TRUE, n, e) : n \in AliasNodesTables, e \in AliasEdgesTables }
    \cup { TablesInput(FALSE, Table(<<>>, <<>>), e) : e \in AliasEdgesTables }

\* a table with one more column, named '_flag'
WithFlag(table) ==
    Table(Append(table.cols, "_flag"),
          [i \in DOMAIN table.rows |-> table.rows[i] @@ ("_flag" :> 1)])

\* the tables of which the nodes table, the edges table or both have a column
\* '_flag', and the graphs of which the nodes or the edges have an attribute
\* '_flag', for n nodes and the edges e
FlagInputsOf(n, e) ==
    { TablesInput(TRUE, WithFlag(NodesTable(n)), e),
      TablesInput(TRUE, NodesTable(n), WithFlag(e)),
      TablesInput(TRUE, WithFlag(NodesTable(n)), WithFlag(e)),
      TablesInput(FALSE, Table(<<>>, <<>>), WithFlag(e)),
      GraphInput("Graph", [i \in 1..n |-> [name |-> Str(OrigId(i)), _flag |-> 1]],
                 e, NoName, {}),
      GraphInput("Graph", [i \in 1..n |-> [name |-> Str(OrigId(i))]],
                 WithFlag(e), NoName, {}) }

FlagInputs ==
    UNION { UNION { UNION { FlagInputsOf(n, e) : e \in EdgeTables(n, m) } :
                    m \in 0..MaxIngestEdges } :
            n \in 0..MaxIngestNodes }

IngestInputs ==
    IdInputs \cup LabelInputs \cup LabelGraphInputs \cup AliasInputs \cup FlagInputs

InitIngest ==
    /\ inputs \in IngestInputs
    /\ nd = NoData
    /\ prev = NoData
    /\ out = NoOut
    /\ op = NoOp
    /\ status = "input"

NextIngest ==
    \/ Assemble
    \/ CreateFromNetworkxGraph

SpecIngest == InitIngest /\ [][NextIngest]_vars

\* ----------------------------------- all operations on one small NetworkData
MaxFrameNodes == 2
MaxFrameEdges == 2

FrameInputs ==
    UNION { UNION { { TablesInput(ns, IF ns THEN NodesTable(n) ELSE Table(<<>>, <<>>), e) :
                        e \in EdgeTables(n, m), ns \in BOOLEAN }
                    \cup { GraphInput("Graph", [i \in 1..n |-> [name |-> Str(OrigId(i))]],
                                      e, NoName, {}) : e \in EdgeTables(n, m) } :
                    m \in 0..MaxFrameEdges } :
            n \in 0..MaxFrameNodes }

InitFrame ==
    /\ inputs \in FrameInputs
    /\ nd = NoData
    /\ prev = NoData
    /\ out = NoOut
    /\ op = NoOp
    /\ status = "input"

CreateAugmented ==
    /\ Fresh
    /\ status = "built"
    /\ \E with_edges, with_nodes \in BOOLEAN :
          Derived(create_augmented(
                      nd.value,
                      IF with_edges
                      THEN <<[name |-> "score",
                              values |-> [i \in 1..num_edges(nd.value) |-> i]]>>
                      ELSE <<>>,
                      IF with_nodes
                      THEN <<[name |-> "score",
                              values |-> [i \in 1..num_nodes(nd.value) |-> i]]>>
                      ELSE <<>>),
                  [name |-> "create_augmented", with_edges |-> with_edges,
                   with_nodes |-> with_nodes])

QueryNodes ==
    /\ Fresh
    /\ \E component_id \in 0..1 :
          Read([kind |-> "query",
                result |-> Ok(query_where(nd.value.nodes, COMPONENT_ID_COLUMN_NAME,
                                          component_id))],
               [name |-> "query_nodes", component_id |-> component_id])

QueryEdges ==
    /\ Fresh
    /\ \E component_id \in 0..1 :
          Read([kind |-> "query",
                result |-> Ok(query_where(nd.value.edges, COMPONENT_ID_COLUMN_NAME,
                                          component_id))],
               [name |-> "query_edges", component_id |-> component_id])

ComponentIds ==
    /\ Fresh
    /\ Read([kind |-> "component_ids", result |-> component_ids(nd.value)],
            [name |-> "component_ids"])

RetrieveGraphData ==
    /\ Fresh
    /\ \E incl_node_attributes \in { InclBool(FALSE), InclBool(TRUE),
                                     InclStr(LABEL_COLUMN_NAME),
                                     InclList(<<COMPONENT_ID_COLUMN_NAME, LABEL_COLUMN_NAME>>) },
          incl_edge_attributes \in { InclBool(FALSE), InclBool(TRUE), InclStr("weight"),
                                     InclList(<<"weight", EDGE_ID_COLUMN_NAME>>) },
          omit_self_loops \in BOOLEAN :
          Read([kind |-> "graph_data",
                result |-> retrieve_graph_data(nd.value, incl_node_attributes,
                                               incl_edge_attributes, omit_self_loops)],
               [name |-> "retrieve_graph_data",
                incl_node_attributes |-> incl_node_attributes,
                incl_edge_attributes |-> incl_edge_attributes,
                omit_self_loops |-> omit_self_loops])

NextFrame ==
    \/ Assemble
    \/ CreateFromNetworkxGraph
    \/ AsNetworkxGraph
    \/ AsRustworkxGraph
    \/ CreateValueMetadata
    \/ ReimportExported
    \/ FromFilteredNodes
    \/ SelectComponent
    \/ FilterComponent
    \/ ExtractComponents
    \/ ExtractCutPoints
    \/ CreateAugmented
    \/ QueryNodes
    \/ QueryEdges
    \/ ComponentIds
    \/ RetrieveGraphData

SpecFrame == InitFrame /\ [][NextFrame]_vars

\* ------------------------------------- exports of nodes tables in any order
\* the nodes tables with the node ids 0 .. n-1, in every row order
PermutedNodesTables(n) ==
    { Table(<<NODE_ID_COLUMN_NAME, LABEL_COLUMN_NAME>>,
            [i \in 1..n |-> (NODE_ID_COLUMN_NAME :> p[i] - 1)
                            @@ (LABEL_COLUMN_NAME :> Str(p[i] - 1))]) :
        p \in Perms(n) }

\* the edges tables with m rows over the node ids 0 .. n-1
EndpointEdgesTables(n, m) ==
    { Table(<<SOURCE_COLUMN_NAME, TARGET_COLUMN_NAME>>,
            [i \in 1..m |-> (SOURCE_COLUMN_NAME :> f[i][1])
                            @@ (TARGET_COLUMN_NAME :> f[i][2])]) :
        f \in [1..m -> (0..(n - 1)) \X (0..(n - 1))] }

ExportInputs ==
    UNION { UNION { [kind : {"raw"}, nodes : PermutedNodesTables(n),
                     edges : EndpointEdgesTables(n, m)] :
                    m \in 0..MaxIngestEdges } :
            n \in 0..MaxNodes }

InitExport ==
    /\ inputs \in ExportInputs
    /\ nd = NoData
    /\ prev = NoData
    /\ out = NoOut
    /\ op = NoOp
    /\ status = "input"

NextExport ==
    \/ CreateNetworkData
    \/ AsRustworkxGraph
    \/ AsNetworkxGraph

SpecExport == InitExport /\ [][NextExport]_vars

\* ----------------------------------------------------------------- claims
HasData == status \in {"built", "derived", "extracted"}

NodeIds(network_data) == Column(network_data.nodes, NODE_ID_COLUMN_NAME)

\* C1: every NetworkData a construction path returns has the node ids
\* 0 .. num_nodes-1, each exactly once.
C1_DenseNodeIds ==
    HasData =>
        /\ Range(NodeIds(nd.value)) = 0..(num_nodes(nd.value) - 1)
        /\ \A i, j \in DOMAIN NodeIds(nd.value) :
              NodeIds(nd.value)[i] = NodeIds(nd.value)[j] => i = j

\* C2: create_network_data (augment_tables true or false) raises, or every
\* source and every target of the returned edges is non-null and is the node
\* id of some nodes row.
C2_NoDanglingEdge ==
    (HasData /\ op.name = "create_network_data") =>
        \A i \in DOMAIN nd.value.edges.rows :
            /\ nd.value.edges.rows[i][SOURCE_COLUMN_NAME] # NULL
            /\ nd.value.edges.rows[i][TARGET_COLUMN_NAME] # NULL
            /\ nd.value.edges.rows[i][SOURCE_COLUMN_NAME] \in Range(NodeIds(nd.value))
            /\ nd.value.edges.rows[i][TARGET_COLUMN_NAME] \in Range(NodeIds(nd.value))

EdgeRows == nd.value.edges.rows
NodeRows == nd.value.nodes.rows

SameDirected(i, j) ==
    /\ EdgeRows[i][SOURCE_COLUMN_NAME] = EdgeRows[j][SOURCE_COLUMN_NAME]
    /\ EdgeRows[i][TARGET_COLUMN_NAME] = EdgeRows[j][TARGET_COLUMN_NAME]

SameUndirected(i, j) ==
    \/ SameDirected(i, j)
    \/ /\ EdgeRows[i][SOURCE_COLUMN_NAME] = EdgeRows[j][TARGET_COLUMN_NAME]
       /\ EdgeRows[i][TARGET_COLUMN_NAME] = EdgeRows[j][SOURCE_COLUMN_NAME]

\* C3: in an augmented edges table the rows of one ordered (source, target)
\* pair carry the directed indices 1..n, each once, and all carry the directed
\* count n, n being the number of rows of the pair.
C3_DirectedPartition ==
    HasData =>
        \A i \in DOMAIN EdgeRows :
            LET G == { j \in DOMAIN EdgeRows : SameDirected(i, j) }
            IN  /\ EdgeRows[i][COUNT_DIRECTED_COLUMN_NAME] = Cardinality(G)
                /\ { EdgeRows[j][COUNT_IDX_DIRECTED_COLUMN_NAME] : j \in G } = 1..Cardinality(G)
                /\ Cardinality({ j \in G : EdgeRows[j][COUNT_IDX_DIRECTED_COLUMN_NAME] = 1 }) = 1

\* an augmented table with a repeated ordered pair next to another pair
C3_Witness ==
    /\ HasData
    /\ \E i, j, k \in DOMAIN EdgeRows : i # j /\ SameDirected(i, j) /\ ~SameDirected(i, k)

\* C4: in an augmented edges table the rows of one unordered endpoint pair
\* (either direction, self-loops as {a, a}) have exactly one row of undirected
\* index 1, and every row carries as undirected count the number of rows of
\* its unordered pair.
C4_UndirectedPartition ==
    HasData =>
        \A i \in DOMAIN EdgeRows :
            LET U == { j \in DOMAIN EdgeRows : SameUndirected(i, j) }
            IN  /\ EdgeRows[i][COUNT_UNDIRECTED_COLUMN_NAME] = Cardinality(U)
                /\ Cardinality({ j \in U : EdgeRows[j][COUNT_IDX_UNDIRECTED_COLUMN_NAME] = 1 }) = 1

\* an augmented table with a row (a, b) and a row (b, a), a # b
C4_Witness ==
    /\ HasData
    /\ \E i, j \in DOMAIN EdgeRows :
          /\ SameUndirected(i, j)
          /\ ~SameDirected(i, j)
          /\ EdgeRows[i][COUNT_UNDIRECTED_COLUMN_NAME] >= 2

OrderedPairs ==
    { <<EdgeRows[i][SOURCE_COLUMN_NAME], EdgeRows[i][TARGET_COLUMN_NAME]>> : i \in DOMAIN EdgeRows }

UnorderedPairs ==
    { {EdgeRows[i][SOURCE_COLUMN_NAME], EdgeRows[i][TARGET_COLUMN_NAME]} : i \in DOMAIN EdgeRows }

\* the inputs of the scenario: edges [(A,B), (B,A), (A,B)], no nodes table
Scenario1 ==
    /\ inputs.kind = "tables"
    /\ ~inputs.nodes_set
    /\ Len(inputs.edges.rows) = 3
    /\ inputs.edges.rows[1].source # inputs.edges.rows[1].target
    /\ inputs.edges.rows[2].source = inputs.edges.rows[1].target
    /\ inputs.edges.rows[2].target = inputs.edges.rows[1].source
    /\ inputs.edges.rows[3].source = inputs.edges.rows[1].source
    /\ inputs.edges.rows[3].target = inputs.edges.rows[1].target

HasMetadata == HasData /\ out.kind = "metadata"

Props(graph_type) == out.result.value.properties_by_graph_type[graph_type]

\* C5: the metadata reports as number_of_edges the number of distinct ordered
\* pairs (directed), of distinct unordered pairs (undirected) and of edge rows
\* (both multi interpretations); edges [(A,B),(B,A),(A,B)] without a nodes
\* table give 2 nodes and the counts 2, 3, 1, 3.
C5_EdgeCounts ==
    HasMetadata =>
        /\ Props("directed").number_of_edges = Cardinality(OrderedPairs)
        /\ Props("undirected").number_of_edges = Cardinality(UnorderedPairs)
        /\ Props("directed_multi").number_of_edges = Len(EdgeRows)
        /\ Props("undirected_multi").number_of_edges = Len(EdgeRows)
        /\ (Scenario1 /\ status = "built") =>
              /\ out.result.value.number_of_nodes = 2
              /\ Props("directed").number_of_edges = 2
              /\ Props("directed_multi").number_of_edges = 3
              /\ Props("undirected").number_of_edges = 1
              /\ Props("undirected_multi").number_of_edges = 3

\* the metadata of the scenario's NetworkData
C5_Witness == HasMetadata /\ Scenario1 /\ status = "built"

\* the interpretation a graph class stands for
Interpretation(directed, multigraph) ==
    IF directed THEN (IF multigraph THEN "directed_multi" ELSE "directed")
    ELSE (IF multigraph THEN "undirected_multi" ELSE "undirected")

Exported == status = "built" /\ out.kind \in {"networkx", "rustworkx"} /\ ~op.omit_self_loops

ExportedNodeCount ==
    IF out.kind = "networkx" THEN nx_number_of_nodes(out.result.value)
    ELSE rx_num_nodes(out.result.value)

ExportedEdgeCount ==
    IF out.kind = "networkx" THEN nx_number_of_edges(out.result.value)
    ELSE rx_num_edges(out.result.value)

\* C6: a graph exported (self-loops kept) by as_networkx_graph or by
\* as_rustworkx_graph has as many nodes as the metadata's number_of_nodes and
\* as many edges as the metadata's number_of_edges of the interpretation the
\* graph class stands for.
C6_ExportCounts ==
    Exported =>
        /\ out.result.ok
        /\ ExportedNodeCount = create_value_metadata(nd.value).number_of_nodes
        /\ ExportedEdgeCount =
              create_value_metadata(nd.value).properties_by_graph_type[
                  Interpretation(out.result.value.directed,
                                 out.result.value.multigraph)].number_of_edges

\* an undirected simple rustworkx export of data with a self-loop and a pair
\* of reversed duplicates
C6_Witness ==
    /\ Exported
    /\ out.kind = "rustworkx"
    /\ op.graph_type = "PyGraph"
    /\ ~op.multigraph
    /\ \E i, j, k \in DOMAIN EdgeRows :
          /\ SameUndirected(i, j) /\ ~SameDirected(i, j)
          /\ EdgeRows[k][SOURCE_COLUMN_NAME] = EdgeRows[k][TARGET_COLUMN_NAME]

\* C7: the parallel edges the metadata reports for the directed (undirected)
\* multi interpretation are the edge rows minus the distinct ordered
\* (unordered) endpoint pairs, the rows of duplicate index 2 or greater.
C7_ParallelEdges ==
    HasMetadata =>
        /\ Props("directed_multi").parallel_edges = Len(EdgeRows) - Cardinality(OrderedPairs)
        /\ Props("directed_multi").parallel_edges =
              Cardinality({ i \in DOMAIN EdgeRows :
                              EdgeRows[i][COUNT_IDX_DIRECTED_COLUMN_NAME] >= 2 })
        /\ Props("undirected_multi").parallel_edges = Len(EdgeRows) - Cardinality(UnorderedPairs)
        /\ Props("undirected_multi").parallel_edges =
              Cardinality({ i \in DOMAIN EdgeRows :
                              EdgeRows[i][COUNT_IDX_UNDIRECTED_COLUMN_NAME] >= 2 })

OtherValues(table) ==
    [i \in DOMAIN table.rows |-> Restrict(table.rows[i], Range(OtherColumns(table)))]

\* C8: re-importing the MultiDiGraph exported with all node and edge
\* attributes succeeds and gives the same number of nodes, the same number of
\* edge rows and the same values of the attributes that do not start with '_'.
C8_RoundTrip ==
    (/\ op.name = "reimport"
     /\ op.export.graph_type = "MultiDiGraph"
     /\ op.export.incl_node_attributes
     /\ op.export.incl_edge_attributes
     /\ ~op.export.omit_self_loops) =>
        /\ status = "derived"
        /\ num_nodes(nd.value) = num_nodes(prev.value)
        /\ num_edges(nd.value) = num_edges(prev.value)
        /\ OtherValues(nd.value.nodes) = OtherValues(prev.value.nodes)
        /\ Range(OtherValues(nd.value.edges)) = Range(OtherValues(prev.value.edges))

RECURSIVE Reach(_)
\* the node ids joined to one of S by a path of edge rows, read in both
\* directions
Reach(S) ==
    LET N == S \cup { EdgeRows[i][TARGET_COLUMN_NAME] :
                        i \in { j \in DOMAIN EdgeRows : EdgeRows[j][SOURCE_COLUMN_NAME] \in S } }
               \cup { EdgeRows[i][SOURCE_COLUMN_NAME] :
                        i \in { j \in DOMAIN EdgeRows : EdgeRows[j][TARGET_COLUMN_NAME] \in S } }
    IN  IF N = S THEN S ELSE Reach(N)

Labelled == HasData /\ out.kind \in {"none", "components"}

\* the component column of the nodes rows: the one augmentation wrote, or the
\* one the component extraction appended
ComponentColumn ==
    IF status = "extracted" THEN out.result.value.components_column
    ELSE Column(nd.value.nodes, COMPONENT_ID_COLUMN_NAME)

\* C9: every nodes row has one component id, and two rows have the same id
\* exactly when their node ids are joined by a path of edges read as
\* undirected.
C9_Components ==
    Labelled =>
        /\ DOMAIN ComponentColumn = DOMAIN NodeRows
        /\ \A i, j \in DOMAIN NodeRows :
              (ComponentColumn[i] = ComponentColumn[j])
                  <=> (NodeRows[j][NODE_ID_COLUMN_NAME] \in Reach({NodeRows[i][NODE_ID_COLUMN_NAME]}))

\* two nodes of one component that no edge row joins directly
C9_Witness ==
    /\ Labelled
    /\ Len(NodeRows) >= 3
    /\ \E i, j \in DOMAIN NodeRows :
          /\ i # j
          /\ ComponentColumn[i] = ComponentColumn[j]
          /\ \A e \in DOMAIN EdgeRows :
                {EdgeRows[e][SOURCE_COLUMN_NAME], EdgeRows[e][TARGET_COLUMN_NAME]}
                    # {NodeRows[i][NODE_ID_COLUMN_NAME], NodeRows[j][NODE_ID_COLUMN_NAME]}

ComponentSize(c) == Cardinality({ i \in DOMAIN NodeRows : ComponentColumn[i] = c })

NumberOfComponents ==
    Cardinality({ Reach({NodeRows[i][NODE_ID_COLUMN_NAME]}) : i \in DOMAIN NodeRows })

\* C10: with k components the component ids are 0..k-1, id i has at least as
\* many nodes as id i+1, and when all nodes are connected all have id 0.
C10_SizeRanked ==
    Labelled =>
        /\ Range(ComponentColumn) = 0..(NumberOfComponents - 1)
        /\ \A c \in 0..(NumberOfComponents - 2) : ComponentSize(c) >= ComponentSize(c + 1)
        /\ (NumberOfComponents = 1 => \A i \in DOMAIN NodeRows : ComponentColumn[i] = 0)

\* two components of different size, the node of the lowest id in the
\* smaller one
C10_Witness ==
    /\ Labelled
    /\ NumberOfComponents = 2
    /\ ComponentSize(0) > ComponentSize(1)
    /\ \E i \in DOMAIN NodeRows :
          NodeRows[i][NODE_ID_COLUMN_NAME] = 0 /\ ComponentColumn[i] = 1

\* the nodes rows whose node id is the value v
NodeRowsOf(v) == { j \in DOMAIN NodeRows : NodeRows[j][NODE_ID_COLUMN_NAME] = v }

\* C11: the labelled edges table of create_network_data (augmenting) has
\* exactly the edge rows of the input, none dropped and none duplicated, and
\* every edge row carries the component id of its source node and of its
\* target node.
C11_EdgeComponents ==
    (HasData /\ op.name = "create_network_data" /\ op.augment_tables) =>
        /\ Len(EdgeRows) = Len(inputs.edges.rows)
        /\ { EdgeRows[i][EDGE_ID_COLUMN_NAME] : i \in DOMAIN EdgeRows }
              = 0..(Len(inputs.edges.rows) - 1)
        /\ \A i \in DOMAIN EdgeRows :
              /\ NodeRowsOf(EdgeRows[i][SOURCE_COLUMN_NAME]) # {}
              /\ NodeRowsOf(EdgeRows[i][TARGET_COLUMN_NAME]) # {}
              /\ \A j \in NodeRowsOf(EdgeRows[i][SOURCE_COLUMN_NAME])
                        \cup NodeRowsOf(EdgeRows[i][TARGET_COLUMN_NAME]) :
                    NodeRows[j][COMPONENT_ID_COLUMN_NAME]
                        = EdgeRows[i][COMPONENT_ID_COLUMN_NAME]

\* the undirected simple reading of the edge rows of the NetworkData the
\* operation was applied to
RECURSIVE PrevReachWithout(_, _)
PrevReachWithout(S, v) ==
    LET rows == prev.value.edges.rows
        N == S \cup { rows[i][TARGET_COLUMN_NAME] :
                        i \in { j \in DOMAIN rows : rows[j][SOURCE_COLUMN_NAME] \in S
                                                    /\ rows[j][TARGET_COLUMN_NAME] # v } }
               \cup { rows[i][SOURCE_COLUMN_NAME] :
                        i \in { j \in DOMAIN rows : rows[j][TARGET_COLUMN_NAME] \in S
                                                    /\ rows[j][SOURCE_COLUMN_NAME] # v } }
    IN  IF N = S THEN S ELSE PrevReachWithout(N, v)

PrevNodeIds == Range(NodeIds(prev.value))

\* the number of components of the graph without the node v (NULL: no node
\* removed)
PrevComponentsWithout(v) ==
    Cardinality({ PrevReachWithout({x}, v) : x \in PrevNodeIds \ {v} })

\* C12: the cut-point operation returns, for every NetworkData, the nodes
\* table with one boolean per node, true exactly for the nodes whose removal
\* increases the number of connected components.
C12_CutPoints ==
    (op.name = "extract_cut_points") =>
        /\ status = "cut_points"
        /\ Len(NodeRows) = num_nodes(prev.value)
        /\ \A i \in DOMAIN NodeRows :
              NodeRows[i][IS_CUTPOINT_COLUMN_NAME]
                  <=> (PrevComponentsWithout(NodeRows[i][NODE_ID_COLUMN_NAME])
                         > PrevComponentsWithout(NULL))

\* the label of the node of id v in a NetworkData
LabelOf(network_data, v) ==
    LET rows == network_data.nodes.rows
    IN  rows[CHOOSE j \in DOMAIN rows : rows[j][NODE_ID_COLUMN_NAME] = v][LABEL_COLUMN_NAME]

\* the edge rows of the source NetworkData with both endpoints in the set S
InnerEdges(S) ==
    { i \in DOMAIN prev.value.edges.rows :
        /\ prev.value.edges.rows[i][SOURCE_COLUMN_NAME] \in S
        /\ prev.value.edges.rows[i][TARGET_COLUMN_NAME] \in S }

\* C13: from_filtered_nodes with a subset of the node ids returns the
\* NetworkData of exactly the listed nodes and of exactly the edge rows with
\* both endpoints listed; the other edges are removed.
C13_FilteredNodes ==
    (op.name = "from_filtered_nodes") =>
        /\ status = "derived"
        /\ num_nodes(nd.value) = Len(op.nodes_list)
        /\ { NodeRows[i][LABEL_COLUMN_NAME] : i \in DOMAIN NodeRows }
              = { LabelOf(prev.value, v) : v \in Range(op.nodes_list) }
        /\ num_edges(nd.value) = Cardinality(InnerEdges(Range(op.nodes_list)))
        /\ { <<LabelOf(nd.value, EdgeRows[i][SOURCE_COLUMN_NAME]),
               LabelOf(nd.value, EdgeRows[i][TARGET_COLUMN_NAME])>> : i \in DOMAIN EdgeRows }
              = { <<LabelOf(prev.value, prev.value.edges.rows[i][SOURCE_COLUMN_NAME]),
                    LabelOf(prev.value, prev.value.edges.rows[i][TARGET_COLUMN_NAME])>> :
                    i \in InnerEdges(Range(op.nodes_list)) }

\* the component ids of the NetworkData the filter was applied to
PrevComponentIds ==
    { prev.value.nodes.rows[i][COMPONENT_ID_COLUMN_NAME] : i \in DOMAIN prev.value.nodes.rows }

\* the result of the filter of the last operation for the component c
SelectedFrom(c) ==
    LET n == Len(prev.value.edges.rows)
    IN  IF op.name = "select_component"
        THEN filter__select_component(prev.value, c, [i \in 1..n |-> i])
        ELSE filter__component(prev.value, c, COMPONENT_ID_COLUMN_NAME, [i \in 1..n |-> i])

RECURSIVE SumOf(_, _)
\* the sum of the values of the function f over the set S
SumOf(f, S) ==
    IF S = {} THEN 0
    ELSE LET x == CHOOSE y \in S : TRUE IN f[x] + SumOf(f, S \ {x})

\* C14: selecting a component of a labelled NetworkData and selecting each of
\* the other components gives NetworkData that together hold every node and
\* every edge row of the original once: the selections succeed, they hold the
\* nodes of their component, and their node counts and their edge-row counts
\* sum to the original's.
C14_Partition ==
    (/\ op.name \in {"select_component", "filter_component"}
     /\ op.component_id \in PrevComponentIds) =>
        /\ status = "derived"
        /\ { NodeRows[i][LABEL_COLUMN_NAME] : i \in DOMAIN NodeRows }
              = { prev.value.nodes.rows[i][LABEL_COLUMN_NAME] :
                    i \in { j \in DOMAIN prev.value.nodes.rows :
                              prev.value.nodes.rows[j][COMPONENT_ID_COLUMN_NAME]
                                  = op.component_id } }
        /\ \A c \in PrevComponentIds : SelectedFrom(c).ok
        /\ num_nodes(nd.value)
              + SumOf([c \in PrevComponentIds |-> num_nodes(SelectedFrom(c).value)],
                      PrevComponentIds \ {op.component_id})
              = num_nodes(prev.value)
        /\ num_edges(nd.value)
              + SumOf([c \in PrevComponentIds |-> num_edges(SelectedFrom(c).value)],
                      PrevComponentIds \ {op.component_id})
              = num_edges(prev.value)

\* component 0 selected out of several, holding two edge rows, next to a
\* component with edge rows of its own
C14_Witness ==
    /\ op.name \in {"select_component", "filter_component"}
    /\ status = "derived"
    /\ op.component_id = 0
    /\ Cardinality(PrevComponentIds) >= 2
    /\ num_edges(nd.value) >= 2
    /\ num_edges(prev.value) > num_edges(nd.value)

\* the edge row of the NetworkData that carries the weight w
EdgeRowOfWeight(w) == EdgeRows[CHOOSE i \in DOMAIN EdgeRows : EdgeRows[i]["weight"] = w]

\* the node id given to the original value v
NewIdOf(v) == NodeRows[CHOOSE j \in DOMAIN NodeRows : NodeRows[j]["id"] = v][NODE_ID_COLUMN_NAME]

AssembledWithoutNodes ==
    inputs.kind = "tables" /\ ~inputs.nodes_set /\ op.name = "assemble.network_data"

\* C15: assemble.network_data without a nodes table makes one node per
\* distinct value of the source and target columns, gives the ids 0..N-1 in
\* ascending order of the original value, and replaces every edge endpoint by
\* the id of its value.
C15_NodesFromEdges ==
    AssembledWithoutNodes =>
        /\ status = "built"
        /\ \A i, j \in DOMAIN NodeRows : NodeRows[i]["id"] = NodeRows[j]["id"] => i = j
        /\ { NodeRows[i]["id"] : i \in DOMAIN NodeRows }
              = { inputs.edges.rows[k]["source"] : k \in DOMAIN inputs.edges.rows }
                \cup { inputs.edges.rows[k]["target"] : k \in DOMAIN inputs.edges.rows }
        /\ Range(NodeIds(nd.value)) = 0..(Len(NodeRows) - 1)
        /\ \A i, j \in DOMAIN NodeRows :
              (NodeRows[i]["id"] < NodeRows[j]["id"])
                  <=> (NodeRows[i][NODE_ID_COLUMN_NAME] < NodeRows[j][NODE_ID_COLUMN_NAME])
        /\ Len(EdgeRows) = Len(inputs.edges.rows)
        /\ \A k \in DOMAIN inputs.edges.rows :
              /\ EdgeRowOfWeight(inputs.edges.rows[k]["weight"])[SOURCE_COLUMN_NAME]
                    = NewIdOf(inputs.edges.rows[k]["source"])
              /\ EdgeRowOfWeight(inputs.edges.rows[k]["weight"])[TARGET_COLUMN_NAME]
                    = NewIdOf(inputs.edges.rows[k]["target"])

\* edges whose first row starts at the greater of two values
C15_Witness ==
    /\ AssembledWithoutNodes
    /\ status = "built"
    /\ Len(inputs.edges.rows) >= 2
    /\ inputs.edges.rows[1]["source"] > inputs.edges.rows[1]["target"]
    /\ inputs.edges.rows[2]["source"] < inputs.edges.rows[1]["target"]

\* C16: when assemble.network_data accepts a nodes table with N rows, the map it
\* builds from original node identifier to dense id is one-to-one and its
\* values are exactly 0..N-1.
AssembledWithNodes ==
    status = "built" /\ op.name = "assemble.network_data" /\ inputs.nodes_set

C16_NodeIdBijection ==
    AssembledWithNodes =>
        LET node_id_map == ZipToRange(Column(inputs.nodes, IdColumnName(inputs)))
        IN  /\ \A a, b \in DOMAIN node_id_map :
                  node_id_map[a] = node_id_map[b] => a = b
            /\ { node_id_map[a] : a \in DOMAIN node_id_map }
                  = 0..(Len(inputs.nodes.rows) - 1)

\* C17: when a nodes table is given and some edge source or target value does
\* not occur in its id column, assemble.network_data ends in an error and
\* produces no NetworkData.
Assembled == status # "input" /\ op.name = "assemble.network_data"

OrphanEndpoint ==
    LET node_ids == Range(Column(inputs.nodes, IdColumnName(inputs)))
    IN  \E i \in DOMAIN inputs.edges.rows :
           \/ inputs.edges.rows[i][SourceColumnName(inputs)] \notin node_ids
           \/ inputs.edges.rows[i][TargetColumnName(inputs)] \notin node_ids

C17_OrphanRejected ==
    (Assembled /\ inputs.nodes_set /\ OrphanEndpoint) =>
        (status = "error" /\ ~nd.ok)

\* an orphan target next to as many node ids as there are distinct endpoints:
\* the call fails on the null that the lookup leaves
C17_Witness ==
    /\ Assembled /\ inputs.nodes_set /\ OrphanEndpoint
    /\ status = "error" /\ nd.error = "KiaraProcessingException"
    /\ Len(inputs.nodes.rows) = 2
    /\ \E i \in DOMAIN inputs.edges.rows :
          /\ inputs.edges.rows[i]["source"] = inputs.nodes.rows[1]["id"]
          /\ inputs.edges.rows[i]["target"] \notin Range(Column(inputs.nodes, "id"))

\* C18: on every ingestion path with a designated label, a node whose label
\* value is present and non-null gets that value as a string, a node whose
\* label value is absent or null gets its original id as a string, and no
\* label of the result is null.
Imported == status # "input" /\ op.name = "create_from_networkx_graph"

LabelFor(value, orig_id) ==
    IF value = NULL \/ value = Absent THEN Str(orig_id) ELSE Str(value)

ResultLabel(i) ==
    NodeRows[CHOOSE j \in DOMAIN NodeRows :
                NodeRows[j][NODE_ID_COLUMN_NAME] = i - 1][LABEL_COLUMN_NAME]

C18_Labels ==
    /\ (Assembled /\ inputs.nodes_set /\ ~OrphanEndpoint
           /\ LabelColumnName(inputs) \in Range(inputs.nodes.cols)) =>
          /\ nd.ok
          /\ Len(NodeRows) = Len(inputs.nodes.rows)
          /\ \A i \in DOMAIN inputs.nodes.rows :
                ResultLabel(i) = LabelFor(inputs.nodes.rows[i][LabelColumnName(inputs)],
                                          inputs.nodes.rows[i][IdColumnName(inputs)])
    /\ (Imported /\ inputs.label_attr_name # NoName /\ nd.ok) =>
          /\ Len(NodeRows) = Len(inputs.node_attrs)
          /\ \A i \in DOMAIN inputs.node_attrs :
                ResultLabel(i) =
                    LabelFor(IF inputs.label_attr_name \in DOMAIN inputs.node_attrs[i]
                             THEN inputs.node_attrs[i][inputs.label_attr_name]
                             ELSE Absent,
                             OrigId(i))

\* C19: with every column-name hint omitted, the column assemble.network_data
\* takes as source, target or id column is the one that matches the earliest
\* alias of the alias list that matches any column, whatever the order of the
\* columns of the table.
EarliestAliasColumn(column_names, aliases) ==
    LET hits == { k \in DOMAIN aliases :
                    \E i \in DOMAIN column_names : Lower(column_names[i]) = aliases[k] }
        first == CHOOSE k \in hits : \A l \in hits : k <= l
    IN  IF hits = {} THEN NoName
        ELSE column_names[CHOOSE i \in DOMAIN column_names :
                             /\ Lower(column_names[i]) = aliases[first]
                             /\ \A j \in DOMAIN column_names :
                                   Lower(column_names[j]) = aliases[first] => i <= j]

InputEdgeRowOfWeight(w) ==
    inputs.edges.rows[CHOOSE i \in DOMAIN inputs.edges.rows :
                         inputs.edges.rows[i]["weight"] = w]

\* the original identifier of the node with dense id v, read from column name
OrigIdOf(v, name) ==
    IF inputs.nodes_set THEN inputs.nodes.rows[v + 1][name]
    ELSE NodeRows[CHOOSE j \in DOMAIN NodeRows :
                     NodeRows[j][NODE_ID_COLUMN_NAME] = v]["id"]

C19_AliasOrder ==
    (Assembled /\ nd.ok /\ inputs \in AliasInputs) =>
        LET source_name == EarliestAliasColumn(inputs.edges.cols, SOURCE_COLUMN_ALIAS_NAMES)
            target_name == EarliestAliasColumn(inputs.edges.cols, TARGET_COLUMN_ALIAS_NAMES)
            id_name == EarliestAliasColumn(inputs.nodes.cols, NODE_ID_ALIAS_NAMES)
        IN  /\ source_name \notin Range(nd.value.edges.cols)
            /\ target_name \notin Range(nd.value.edges.cols)
            /\ \A i \in DOMAIN EdgeRows :
                  LET old == InputEdgeRowOfWeight(EdgeRows[i]["weight"])
                  IN  /\ OrigIdOf(EdgeRows[i][SOURCE_COLUMN_NAME], id_name) = old[source_name]
                      /\ OrigIdOf(EdgeRows[i][TARGET_COLUMN_NAME], id_name) = old[target_name]

\* C20: every ingestion path ends in an error when a nodes or edges table has
\* a user column, or a graph a node or edge attribute, whose name starts with
\* '_'; such a column is neither dropped nor carried into a result.
UserUnderscoreColumn ==
    IF inputs.kind = "tables"
    THEN \E c \in Range(inputs.nodes.cols) \cup Range(inputs.edges.cols) :
            StartsWithUnderscore(c)
    ELSE \/ \E i \in DOMAIN inputs.node_attrs : \E k \in DOMAIN inputs.node_attrs[i] :
              StartsWithUnderscore(k)
         \/ /\ inputs.edges.rows # <<>>
            /\ \E c \in Range(inputs.edges.cols) : StartsWithUnderscore(c)

C20_ReservedPrefixRejected ==
    ((Assembled \/ Imported) /\ UserUnderscoreColumn) => (status = "error" /\ ~nd.ok)

\* C21: for every node of an augmented NetworkData the degree centrality, simple
\* and multi, is the combined edge count over the number of nodes and lies in
\* [0, 1]: the combined edge count never exceeds the number of nodes.
C21_DegreeCentrality ==
    (status = "built") =>
        \A i \in DOMAIN NodeRows :
            /\ NodeRows[i][UNWEIGHTED_DEGREE_CENTRALITY_COLUMN_NAME]
                  = <<NodeRows[i][CONNECTIONS_COLUMN_NAME], Len(NodeRows)>>
            /\ NodeRows[i][UNWEIGHTED_DEGREE_CENTRALITY_MULTI_COLUMN_NAME]
                  = <<NodeRows[i][CONNECTIONS_MULTI_COLUMN_NAME], Len(NodeRows)>>
            /\ NodeRows[i][CONNECTIONS_COLUMN_NAME] <= Len(NodeRows)
            /\ NodeRows[i][CONNECTIONS_MULTI_COLUMN_NAME] <= Len(NodeRows)

\* C22: for every node, in-degree (multi) is the number of edge rows with the
\* node as target, out-degree (multi) the number with it as source, the simple
\* in- and out-degree the same counts over the rows with directed-duplicate
\* index 1, the combined counts are in + out, and all of them are 0, not null,
\* for a node without incident edge.
RowsAt(endpoint, v, simple) ==
    { i \in DOMAIN EdgeRows :
        /\ EdgeRows[i][endpoint] = v
        /\ (simple => EdgeRows[i][COUNT_IDX_DIRECTED_COLUMN_NAME] = 1) }

C22_NodeDegrees ==
    (status \in {"built", "derived"}) =>
        \A j \in DOMAIN NodeRows :
            LET v == NodeRows[j][NODE_ID_COLUMN_NAME]
                r == NodeRows[j]
            IN  /\ r[IN_DIRECTED_MULTI_COLUMN_NAME]
                      = Cardinality(RowsAt(TARGET_COLUMN_NAME, v, FALSE))
                /\ r[OUT_DIRECTED_MULTI_COLUMN_NAME]
                      = Cardinality(RowsAt(SOURCE_COLUMN_NAME, v, FALSE))
                /\ r[IN_DIRECTED_COLUMN_NAME]
                      = Cardinality(RowsAt(TARGET_COLUMN_NAME, v, TRUE))
                /\ r[OUT_DIRECTED_COLUMN_NAME]
                      = Cardinality(RowsAt(SOURCE_COLUMN_NAME, v, TRUE))
                /\ r[CONNECTIONS_COLUMN_NAME]
                      = r[IN_DIRECTED_COLUMN_NAME] + r[OUT_DIRECTED_COLUMN_NAME]
                /\ r[CONNECTIONS_MULTI_COLUMN_NAME]
                      = r[IN_DIRECTED_MULTI_COLUMN_NAME] + r[OUT_DIRECTED_MULTI_COLUMN_NAME]
                /\ \A c \in { IN_DIRECTED_COLUMN_NAME, IN_DIRECTED_MULTI_COLUMN_NAME,
                                OUT_DIRECTED_COLUMN_NAME, OUT_DIRECTED_MULTI_COLUMN_NAME,
                                CONNECTIONS_COLUMN_NAME, CONNECTIONS_MULTI_COLUMN_NAME } :
                      r[c] # NULL /\ r[c] >= 0

\* a node without incident edge next to a node that two parallel edges enter
C22_Witness ==
    /\ status = "built"
    /\ \E j \in DOMAIN NodeRows :
          /\ NodeRows[j][CONNECTIONS_MULTI_COLUMN_NAME] = 0
          /\ NodeRows[j][CONNECTIONS_COLUMN_NAME] = 0
    /\ \E j \in DOMAIN NodeRows :
          /\ NodeRows[j][IN_DIRECTED_MULTI_COLUMN_NAME] = 2
          /\ NodeRows[j][IN_DIRECTED_COLUMN_NAME] = 1

\* C23: a graph of one node with one self-loop edge gives 1 node, 1 edge row,
\* number_of_self_loops = 1, one connected component with the node in
\* component 0, and a multi degree of 2 for the node.
SelfLoopInput ==
    /\ Len(inputs.edges.rows) = 1
    /\ inputs.edges.rows[1]["source"] = inputs.edges.rows[1]["target"]
    /\ IF inputs.kind = "tables"
       THEN inputs.nodes_set => Len(inputs.nodes.rows) = 1
       ELSE Len(inputs.node_attrs) = 1

C23_SingleSelfLoop ==
    /\ ((Assembled \/ Imported) /\ SelfLoopInput) => status = "built"
    /\ (status = "built" /\ SelfLoopInput) =>
        /\ Len(NodeRows) = 1
        /\ Len(EdgeRows) = 1
        /\ NodeRows[1][COMPONENT_ID_COLUMN_NAME] = 0
        /\ EdgeRows[1][COMPONENT_ID_COLUMN_NAME] = 0
        /\ NodeRows[1][CONNECTIONS_MULTI_COLUMN_NAME] = 2
        /\ (out.kind = "metadata" =>
              /\ out.result.value.number_of_nodes = 1
              /\ out.result.value.number_of_self_loops = 1
              /\ out.result.value.number_of_components = 1
              /\ Props("undirected_multi").number_of_edges = 1)

C23_Witness ==
    /\ SelfLoopInput /\ status = "built" /\ out.kind = "metadata"
    /\ inputs.kind = "tables" /\ ~inputs.nodes_set

\* C24: no operation changes an existing NetworkData: a step taken from a
\* state that holds an instance either leaves the instance where it is, with
\* its tables as they were, or keeps it unchanged next to the new one.
HoldsInstance == status \notin {"input", "error"} /\ nd.ok

C25_ComponentIds ==
    out.kind = "component_ids" =>
        /\ out.result = { PyInt(c) : c \in Range(Column(nd.value.nodes, COMPONENT_ID_COLUMN_NAME)) }
        /\ Cardinality(out.result)
              = Cardinality(Range(Column(nd.value.nodes, COMPONENT_ID_COLUMN_NAME)))

\* C26: edge augmentation numbers the rows in their input order: the k-th input
\* row (the row of weight 100 + k) gets edge id k - 1, and inside a directed or
\* an undirected group the duplicate index grows with the input position.
C26_InputRowOrder ==
    (Assembled /\ status = "built") =>
        /\ \A k \in DOMAIN inputs.edges.rows :
              EdgeRowOfWeight(100 + k)[EDGE_ID_COLUMN_NAME] = k - 1
        /\ \A i, j \in DOMAIN EdgeRows :
              (EdgeRows[i]["weight"] < EdgeRows[j]["weight"]) =>
                  /\ SameDirected(i, j) =>
                        EdgeRows[i][COUNT_IDX_DIRECTED_COLUMN_NAME]
                            < EdgeRows[j][COUNT_IDX_DIRECTED_COLUMN_NAME]
                  /\ SameUndirected(i, j) =>
                        EdgeRows[i][COUNT_IDX_UNDIRECTED_COLUMN_NAME]
                            < EdgeRows[j][COUNT_IDX_UNDIRECTED_COLUMN_NAME]

\* the attributes a caller asks for: none, all the columns, or the named ones
Requested(incl, all_attr_names) ==
    IF incl.kind = "bool" THEN (IF incl.flag THEN Range(all_attr_names) ELSE {})
    ELSE Range(incl.names)

\* C27: retrieve_graph_data hands each callback the id (the two endpoints) and
\* exactly the requested attributes: nothing more with False, the named
\* attributes with a name or a list of names.
C27_RequestedAttributes ==
    (out.kind = "graph_data" /\ out.result.ok) =>
        /\ \A i \in DOMAIN out.result.value.nodes_callback :
              DOMAIN out.result.value.nodes_callback[i]
                  = {NODE_ID_COLUMN_NAME}
                    \cup Requested(op.incl_node_attributes, nd.value.nodes.cols)
        /\ \A i \in DOMAIN out.result.value.edges_callback :
              DOMAIN out.result.value.edges_callback[i]
                  = {SOURCE_COLUMN_NAME, TARGET_COLUMN_NAME}
                    \cup Requested(op.incl_edge_attributes, nd.value.edges.cols)

\* the node id carried by the graph node with index i
RxNodeId(graph, i) == graph.nodes[i + 1][NODE_ID_COLUMN_NAME]

\* the graph has an edge between a node that carries s and a node that carries t
RxJoins(graph, s, t) ==
    \E e \in DOMAIN graph.edges :
        \/ RxNodeId(graph, graph.edges[e].a) = s /\ RxNodeId(graph, graph.edges[e].b) = t
        \/ /\ ~graph.directed
           /\ RxNodeId(graph, graph.edges[e].a) = t /\ RxNodeId(graph, graph.edges[e].b) = s

\* C28: as_rustworkx_graph succeeds on a NetworkData whatever the order of its
\* nodes rows, every exported edge row (s, t) is an edge between the graph
\* nodes that carry s and t, and the attached map sends each graph node index
\* to the node id stored in that node, one to one.
C28_RustworkxEndpoints ==
    out.kind = "rustworkx" =>
        /\ out.result.ok
        /\ LET graph == out.result.value
               rows == EdgeRowsToExport(nd.value, op.omit_self_loops)
           IN  /\ \A i \in DOMAIN rows :
                     RxJoins(graph, rows[i][SOURCE_COLUMN_NAME], rows[i][TARGET_COLUMN_NAME])
               /\ op.attach_node_id_map =>
                     /\ Len(graph.attrs) = 1
                     /\ DOMAIN graph.attrs[1] = DOMAIN graph.nodes
                     /\ \A i \in DOMAIN graph.nodes :
                           graph.attrs[1][i] = RxNodeId(graph, i - 1)
                     /\ \A i, j \in DOMAIN graph.nodes :
                           graph.attrs[1][i] = graph.attrs[1][j] => i = j

\* C29: a graph without reserved attribute keys is imported whatever its
\* attribute dictionaries hold (an attribute missing on some node, no node at
\* all): one nodes row per node, one edges row per edge, and every attribute
\* value in the row of the node that carries it.
C29_ArbitraryAttributes ==
    (Imported /\ ~UserUnderscoreColumn) =>
        /\ status = "built"
        /\ nd.ok
        /\ Len(NodeRows) = Len(inputs.node_attrs)
        /\ Len(EdgeRows) = Len(InputGraph(inputs).edges)
        /\ \A i \in DOMAIN inputs.node_attrs :
              \A k \in DOMAIN inputs.node_attrs[i] \ inputs.ignore_node_attributes :
                  /\ k \in Range(nd.value.nodes.cols)
                  /\ NodeRows[i][k] = inputs.node_attrs[i][k]

\* a NetworkData fresh from a constructor that augmented its tables
AugmentedData ==
    /\ status = "built"
    /\ nd.ok
    /\ IN_DIRECTED_MULTI_COLUMN_NAME \in Range(nd.value.nodes.cols)

\* the number of nodes the constructor was given
InputNodeCount ==
    IF inputs.kind = "networkx" THEN Len(inputs.node_attrs)
    ELSE IF inputs.kind = "tables" /\ ~inputs.nodes_set
    THEN Cardinality({ inputs.edges.rows[i][c] :
                         i \in DOMAIN inputs.edges.rows, c \in {"source", "target"} })
    ELSE Len(inputs.nodes.rows)

NodeColumnSum(name) == SumOf(Column(nd.value.nodes, name), DOMAIN NodeRows)

\* C30: in an augmented NetworkData there is one nodes row per input node, the
\* multi in-degrees and the multi out-degrees each add up to the number of
\* edge rows, and the simple in-degrees and out-degrees each add up to the
\* number of edge rows with directed duplicate index 1.
C30_DegreeSums ==
    AugmentedData =>
        /\ Len(NodeRows) = InputNodeCount
        /\ NodeColumnSum(IN_DIRECTED_MULTI_COLUMN_NAME) = Len(EdgeRows)
        /\ NodeColumnSum(OUT_DIRECTED_MULTI_COLUMN_NAME) = Len(EdgeRows)
        /\ NodeColumnSum(IN_DIRECTED_COLUMN_NAME)
              = Cardinality({ i \in DOMAIN EdgeRows :
                                EdgeRows[i][COUNT_IDX_DIRECTED_COLUMN_NAME] = 1 })
        /\ NodeColumnSum(OUT_DIRECTED_COLUMN_NAME)
              = Cardinality({ i \in DOMAIN EdgeRows :
                                EdgeRows[i][COUNT_IDX_DIRECTED_COLUMN_NAME] = 1 })

====
